---- MODULE Spec2Model ----
(***************************************************************************)
(* Model of the TCP-In connection tracker (elements/middlebox/tcpin.cc)    *)
(* and of the TCPElement helpers it uses (include/click/tcpelement.hh).    *)
(*                                                                         *)
(* Two TCPIn elements, one per flow direction, are paired through          *)
(* returnElement.  Each has its own flow-id table and its own pool of      *)
(* fcb_tcp_common records.  A flow control block (FCB) belongs to one flow *)
(* of one element; the two directions of a connection meet in the          *)
(* fcb_tcp_common record the initiator allocates.                          *)
(*                                                                         *)
(* The ByteStreamMaintainer, the RetransmissionTiming, TCPOut and the      *)
(* SEQ_LT macro are used by tcpin.cc but defined elsewhere in the          *)
(* repository; they are modelled from the specification (sections 4.1,     *)
(* 4.4, 4.6) and are marked as such where they are defined.                *)
(***************************************************************************)
EXTENDS Integers, Sequences, FiniteSets, TLC

VARIABLES
    fcbs,               \* [Fcbs -> struct fcb]: tcp_common pointer and the tcpin slice
    tableFcbTcpCommon,  \* [Dirs -> [flow id -> record id]]: TCPIn::tableFcbTcpCommon
    poolFcbTcpCommon,   \* [Dirs -> Nat]: records handed out by TCPIn::poolFcbTcpCommon
    commons,            \* sequence of fcb_tcp_common records; a pointer is an index
    last,               \* the last operation: its arguments, its result, what it emitted
    failed,             \* TRUE once the process has died on an invalid memory access
    script,             \* packets delivered so far by the scripted connection (SpecScenario)
    poolModificationLists,  \* [Dirs -> Nat]: lists handed out by TCPIn::poolModificationLists
    flowBuffer,         \* the FlowBuffer of an element of the stack, and its content iterator
    lifetime            \* which direction reached a CLOSED state last; records released

vars == <<fcbs, tableFcbTcpCommon, poolFcbTcpCommon, commons, last, failed, script,
          poolModificationLists, flowBuffer, lifetime>>

-----------------------------------------------------------------------------
(* Widths, constants and the bounded inputs                                *)

\* tcp_seq_t is an unsigned 32-bit integer.  The model keeps the modular
\* arithmetic and scales the width to SeqBits so that TLC's integers hold it.
SeqBits == 14
SeqMod == 2 ^ SeqBits

\* The null pointer.
NULL == 0

\* Flow directions of the two paired TCPIn elements.
Dirs == {0, 1}

\* A flow id is <<source address, source port, destination address, destination port>>.
ClientToServer == <<1, 10, 2, 20>>
ServerToClient == <<2, 20, 1, 10>>

\* The FCBs the classifier hands to each element: element 0 sees the
\* client-to-server flow, element 1 the server-to-client flow.
Fcbs == {<<0, ClientToServer>>, <<1, ServerToClient>>}

\* TCP flag combinations carried by the packets fed to the elements.
FlagSets == {{"SYN"}, {"SYN", "ACK"}, {"ACK"}, {"FIN", "ACK"}}

\* Sequence and acknowledgement numbers, and payload lengths, of the input packets.
SeqVals == {1001, 1011}
AckVals == {1011}
LenVals == {0, 10}

\* Offset of the TCP payload in the packet buffer (IP header + TCP header, no options).
PayloadOffset == 40

\* Largest number of entries a maintainer tree holds in the model.
MaxMods == 1

\* Edits the TCP-Out side pushes into a maintainer: one removal of three bytes
\* at each of MaxMods points of the stream.
ModKeys == {1004 + 6 * i : i \in 0..(MaxMods - 1)}
ModDeltas == {-3}

-----------------------------------------------------------------------------
(* TCPElement helpers (tcpelement.hh)                                      *)

isSyn(p) == "SYN" \in p.flags
isFin(p) == "FIN" \in p.flags
isRst(p) == "RST" \in p.flags
isAck(p) == "ACK" \in p.flags

getPayloadLength(p) == p.len
getSequenceNumber(p) == p.seq
getAckNumber(p) == p.ack
getSourceAddress(p) == p.flow[1]
getSourcePort(p) == p.flow[2]
getDestinationAddress(p) == p.flow[3]
getDestinationPort(p) == p.flow[4]

isJustAnAck(p) ==
    IF getPayloadLength(p) > 0 THEN FALSE
    ELSE p.flags = {"ACK"}

\* Mutant: the numbers are compared as plain unsigned integers.
SEQ_LT_Unsigned(x, y) == x < y

\* clicknet/tcp.h: SEQ_LT(x, y) is ((int)((x) - (y)) < 0), at the model's width.
SEQ_LT(x, y) == ((x - y + SeqMod) % SeqMod) >= (SeqMod \div 2)

Wrap(x) == ((x % SeqMod) + SeqMod) % SeqMod

Max(S) == CHOOSE x \in S : \A y \in S : y <= x

-----------------------------------------------------------------------------
(* ByteStreamMaintainer (specification, section 4.1)                        *)

\* Safety window of prune: entries older than ack - PruneWindow are dropped.
PruneWindow == 2

\* A maintainer as the constructor of fcb_tcp_common leaves it.  The tree maps
\* an original sequence number to the signed delta recorded at that point.
NewMaintainer ==
    [initialized |-> FALSE, tree |-> << >>,
     lastAckSent |-> 0, lastAckReceived |-> 0,
     ipSrc |-> 0, ipDst |-> 0, portSrc |-> 0, portDst |-> 0]

initialize(m) == [m EXCEPT !.initialized = TRUE, !.tree = << >>]

RECURSIVE SumDeltas(_, _)
SumDeltas(tree, keys) ==
    IF keys = {} THEN 0
    ELSE LET k == CHOOSE x \in keys : TRUE
         IN tree[k] + SumDeltas(tree, keys \ {k})

\* Mutant: the deltas are subtracted.
mapSeq_Subtracts(m, s) == Wrap(s - SumDeltas(m.tree, {k \in DOMAIN m.tree : k <= s}))

\* mapSeq(s) = s plus the sum of all deltas with key <= s.
mapSeq(m, s) == Wrap(s + SumDeltas(m.tree, {k \in DOMAIN m.tree : k <= s}))

\* Mutant: the key is found by its original value, not by its mapped value.
mapAck_KeyNotMapped(m, a) ==
    LET K == {k \in DOMAIN m.tree : k <= a}
    IN IF K = {} THEN a
       ELSE Wrap(Max(K) + (a - mapSeq(m, Max(K))))

\* mapAck(a): the largest key k with mapSeq(k) <= a gives k + (a - mapSeq(k)).
mapAck(m, a) ==
    LET K == {k \in DOMAIN m.tree : mapSeq(m, k) <= a}
    IN IF K = {} THEN a
       ELSE Wrap(Max(K) + (a - mapSeq(m, Max(K))))

\* insertModification(seq, delta): sum into an existing entry, else insert.
insertModification(m, key, delta) ==
    LET old == IF key \in DOMAIN m.tree THEN m.tree[key] ELSE 0
    IN [m EXCEPT !.tree =
            [k \in (DOMAIN m.tree) \cup {key} |->
                IF k = key THEN old + delta ELSE m.tree[k]]]

\* prune(ack): drop the entries whose key is below ack minus the safety window.
prune(m, ack) ==
    [m EXCEPT !.tree =
        [k \in {x \in DOMAIN m.tree : ~(x < ack - PruneWindow)} |-> m.tree[k]]]

setLastAckReceived(m, ack) == [m EXCEPT !.lastAckReceived = ack]
setLastAckSent(m, ack) == [m EXCEPT !.lastAckSent = ack]
getLastAckSent(m) == m.lastAckSent

-----------------------------------------------------------------------------
(* ModificationList (specification, section 4.2): the edits of one packet,  *)
(* a sequence of nodes [position, length] in ascending position.  Edits in  *)
(* the model meet only at equal positions.                                  *)

NewModificationList == << >>

\* Index after which a node at this position is inserted.
insertionPoint(list, position) ==
    Cardinality({i \in 1..Len(list) : list[i].position <= position})

\* addModification(position, length): a node that cancels the new edit exactly
\* is removed, a node of the same sign at the same position absorbs it, and
\* otherwise the edit becomes a node of its own, in position order.
addModification(list, position, length) ==
    LET cancelling == {i \in 1..Len(list) :
                          /\ list[i].position = position
                          /\ list[i].length + length = 0}
        coalescing == {i \in 1..Len(list) :
                          /\ list[i].position = position
                          /\ (list[i].length > 0) = (length > 0)}
        at == insertionPoint(list, position)
    IN IF cancelling # {}
       THEN LET i == Max(cancelling)
            IN SubSeq(list, 1, i - 1) \o SubSeq(list, i + 1, Len(list))
       ELSE IF coalescing # {}
       THEN [list EXCEPT ![Max(coalescing)].length = @ + length]
       ELSE SubSeq(list, 1, at)
            \o <<[position |-> position, length |-> length]>>
            \o SubSeq(list, at + 1, Len(list))

\* Sum of the signed lengths of a list.
RECURSIVE SumLengths(_)
SumLengths(list) ==
    IF list = << >> THEN 0
    ELSE Head(list).length + SumLengths(Tail(list))

\* Mutant: only the first edit of the list reaches the maintainer.
commit_FirstEditOnly(m, list) ==
    IF list = << >> THEN m
    ELSE insertModification(m, Head(list).position, Head(list).length)

\* TCP-Out applies a list to the maintainer, one entry per edit.
RECURSIVE commit(_, _)
commit(m, list) ==
    IF list = << >> THEN m
    ELSE commit(insertModification(m, Head(list).position, Head(list).length),
                Tail(list))

-----------------------------------------------------------------------------
(* RetransmissionTiming (specification, section 4.4), reduced to the        *)
(* acknowledgement it was last signalled.                                   *)

NewRetransmissionTiming == [signalled |-> FALSE, ack |-> 0]

signalAck(rt, ack) == [rt EXCEPT !.signalled = TRUE, !.ack = ack]

-----------------------------------------------------------------------------
(* struct fcb and struct fcb_tcp_common                                     *)

ClosingStates ==
    {"OPEN", "BEING_CLOSED_GRACEFUL", "CLOSED_GRACEFUL",
     "BEING_CLOSED_UNGRACEFUL", "CLOSED_UNGRACEFUL"}

\* The constructor of fcb_tcp_common: both closing states OPEN.
NewTcpCommon ==
    [closingStates |-> [d \in Dirs |-> "OPEN"],
     maintainers |-> [d \in Dirs |-> NewMaintainer],
     retransmissionTimings |-> [d \in Dirs |-> NewRetransmissionTiming]]

NoFlow == << >>

\* An FCB as the classifier hands it over the first time: zeroed.
NewFcb ==
    [tcp_common |-> NULL,
     poolModificationNodes |-> FALSE, poolModificationLists |-> FALSE,
     inChargeOfTcpCommon |-> FALSE, flowID |-> NoFlow,
     tableTcpCommon |-> FALSE, poolTcpCommon |-> FALSE,
     modificationLists |-> << >>]

FlowIds == {ClientToServer, ServerToClient}

getFlowDirection(f) == f[1]
getOppositeFlowDirection(f) == 1 - f[1]

\* configure(): returnElement is the TCPIn of the other direction.
returnElement(d) == 1 - d

-----------------------------------------------------------------------------
(* TCPIn (tcpin.cc).  The operators work on a snapshot                       *)
(*   S = [fcbs, table, pool, commons, listPool]                              *)
(* of the program state and return the snapshot the code leaves.             *)

State == [fcbs |-> fcbs, table |-> tableFcbTcpCommon,
          pool |-> poolFcbTcpCommon, commons |-> commons,
          listPool |-> poolModificationLists]

\* TCPOut::sendAck, reduced to the packet it forges.
sendAck(saddr, daddr, sport, dport, seq, ack) ==
    [flow |-> <<saddr, sport, daddr, dport>>, flags |-> {"ACK"},
     seq |-> seq, ack |-> ack, len |-> 0, dirty |-> FALSE, contentOffset |-> 0]

\* TCPOut::sendClosingPacket, reduced to the packet it forges.
sendClosingPacket(saddr, daddr, sport, dport, seq, ack, graceful) ==
    [flow |-> <<saddr, sport, daddr, dport>>,
     flags |-> IF graceful THEN {"FIN", "ACK"} ELSE {"RST"},
     seq |-> seq, ack |-> ack, len |-> 0, dirty |-> FALSE, contentOffset |-> 0]

\* processPacket, lines 81-85: the pool pointers of the FCB.
ensurePools(S, f) ==
    [S EXCEPT !.fcbs[f].poolModificationNodes = TRUE,
              !.fcbs[f].poolModificationLists = TRUE]

\* Mutant: the SYN test is missing.
isHandshakePacket_Always(p) == TRUE

\* assignTCPCommon, line 409: only a SYN starts a connection.
isHandshakePacket(p) == "SYN" \in p.flags

\* assignTCPCommon, line 414: a SYN carrying an ACK comes from the responder.
isFromResponder(p) == "ACK" \in p.flags

\* Mutant: the responder looks its own flow id up, not the reversed one.
responderFlowID_NotReversed(p) ==
    <<getSourceAddress(p), getSourcePort(p),
      getDestinationAddress(p), getDestinationPort(p)>>

\* assignTCPCommon, line 417: the flow id of the opposite side.
responderFlowID(p) ==
    <<getDestinationAddress(p), getDestinationPort(p),
      getSourceAddress(p), getSourcePort(p)>>

\* Mutant: the initiator publishes under the reversed flow id.
initiatorFlowID_Reversed(p) ==
    <<getDestinationAddress(p), getDestinationPort(p),
      getSourceAddress(p), getSourcePort(p)>>

\* assignTCPCommon, line 427: the flow id of this side.
initiatorFlowID(p) ==
    <<getSourceAddress(p), getSourcePort(p),
      getDestinationAddress(p), getDestinationPort(p)>>

\* getTCPCommon: the record stored under flowID in the table, or NULL.
getTCPCommon(table, flowID) ==
    IF flowID \notin DOMAIN table \/ table[flowID] = NULL
    THEN NULL
    ELSE table[flowID]

\* assignTCPCommon, lines 450-454: the flow information of this direction.
setFlowInformation(m, p) ==
    [m EXCEPT !.ipSrc = getSourceAddress(p),
              !.ipDst = getDestinationAddress(p),
              !.portSrc = getDestinationPort(p),
              !.portDst = getSourcePort(p)]

\* assignTCPCommon for the responder, lines 414-424 and 450-456.  When the
\* lookup fails fcb->tcp_common is NULL and line 422 calls initialize() on a
\* maintainer of the null record: the store hits an unmapped page and the
\* process dies.  inChargeOfTcpCommon is FALSE on every FCB without a record,
\* so whether line 423 was still reached makes no difference to the state.
assignResponder(S, f, p) ==
    LET d == getFlowDirection(f)
        r == getTCPCommon(S.table[returnElement(d)], responderFlowID(p))
    IN IF r = NULL
       THEN [ok |-> FALSE, crash |-> TRUE,
             S |-> [S EXCEPT !.fcbs[f].tcp_common = NULL]]
       ELSE [ok |-> TRUE, crash |-> FALSE,
             S |-> [S EXCEPT
                 !.fcbs[f].tcp_common = r,
                 !.fcbs[f].inChargeOfTcpCommon = FALSE,
                 !.commons[r].maintainers[d] =
                     setFlowInformation(initialize(@), p)]]

\* The sizes of the pools of an element, scaled down: the number of
\* fcb_tcp_common records and of modification lists it can hand out.
TCPCOMMON_POOL_SIZE == 2
MODIFICATIONLISTS_POOL_SIZE == 4

\* MemoryPool::getMemory on a pool of fixed size that has handed out
\* handedOut elements: NULL when none is free.  The pool is defined
\* elsewhere in the repository and modelled from the specification
\* (sections 3 and 7.2).
getMemoryFails(handedOut, size) == handedOut >= size

\* assignTCPCommon for the initiator, lines 425-456.  The record is
\* constructed in the memory the pool returns, whatever the pool returns:
\* with NULL the constructor writes through an invalid pointer.
assignInitiator(S, f, p) ==
    LET d == getFlowDirection(f)
        flowID == initiatorFlowID(p)
        allocated == Len(S.commons) + 1
    IN IF getMemoryFails(S.pool[d], TCPCOMMON_POOL_SIZE)
       THEN [ok |-> FALSE, crash |-> TRUE, S |-> S]
       ELSE
       [ok |-> TRUE, crash |-> FALSE,
        S |-> [fcbs |-> [S.fcbs EXCEPT
                   ![f].tcp_common = allocated,
                   ![f].inChargeOfTcpCommon = TRUE,
                   ![f].flowID = flowID,
                   ![f].tableTcpCommon = TRUE,
                   ![f].poolTcpCommon = TRUE],
               table |-> [S.table EXCEPT ![d][flowID] = allocated],
               pool |-> [S.pool EXCEPT ![d] = @ + 1],
               commons |-> Append(S.commons,
                   [NewTcpCommon EXCEPT !.maintainers[d] =
                       setFlowInformation(initialize(@), p)]),
               listPool |-> S.listPool]]

assignTCPCommon(S, f, p) ==
    IF ~isHandshakePacket(p)
    THEN [ok |-> FALSE, crash |-> FALSE, S |-> S]
    ELSE IF isFromResponder(p)
         THEN assignResponder(S, f, p)
         ELSE assignInitiator(S, f, p)

\* Mutant: the ack number of the packet is never mapped back.
ackPacket_NeverMapped(S, f, p, ackMapped) ==
    sendAck(getDestinationAddress(p), getSourceAddress(p),
            getDestinationPort(p), getSourcePort(p), getAckNumber(p),
            Wrap(getSequenceNumber(p) + getPayloadLength(p)
                 + (IF isFin(p) \/ isSyn(p) THEN 1 ELSE 0)))

\* ackPacket: the ACK sent back to the source of the packet.
ackPacket(S, f, p, ackMapped) ==
    LET tc == S.commons[S.fcbs[f].tcp_common]
        seq == IF ackMapped
               THEN mapSeq(tc.maintainers[getOppositeFlowDirection(f)], getAckNumber(p))
               ELSE getAckNumber(p)
        ack == Wrap(getSequenceNumber(p) + getPayloadLength(p)
                    + (IF isFin(p) \/ isSyn(p) THEN 1 ELSE 0))
    IN sendAck(getDestinationAddress(p), getSourceAddress(p),
               getDestinationPort(p), getSourcePort(p), seq, ack)

\* Mutant: packets are ACKed in the ungraceful closing states too.
acksWhenClosed_Any(closingState) == TRUE

\* checkConnectionClosed, line 383: the closing states in which packets are ACKed.
acksWhenClosed(closingState) ==
    closingState \in {"BEING_CLOSED_GRACEFUL", "CLOSED_GRACEFUL"}

\* checkConnectionClosed, line 386: the packets that are ACKed.
needsAck(p) == isFin(p) \/ isSyn(p) \/ getPayloadLength(p) > 0

\* Mutant: the closing state is not looked at.
checkConnectionClosed_AlwaysOpen(S, f, p) == [open |-> TRUE, sent |-> << >>]

\* checkConnectionClosed: TRUE when the direction is open, else FALSE with the
\* ACK emitted on the way.
checkConnectionClosed(S, f, p) ==
    LET closingState ==
            S.commons[S.fcbs[f].tcp_common].closingStates[getFlowDirection(f)]
    IN IF closingState # "OPEN"
       THEN [open |-> FALSE,
             sent |-> IF acksWhenClosed(closingState) /\ needsAck(p)
                      THEN <<ackPacket(S, f, p, FALSE)>> ELSE << >>]
       ELSE [open |-> TRUE, sent |-> << >>]

\* Mutant: a SYN after the handshake is processed like any packet.
isUnexpectedSyn_Never(p) == FALSE

\* processPacket, line 106: a SYN on an FCB that already has its record.
isUnexpectedSyn(p) == isSyn(p)

\* Mutant: the operands of the comparison are swapped.
isLostAck_Swapped(p, lastAckSentOtherSide) ==
    ~isSyn(p) /\ SEQ_LT(lastAckSentOtherSide, getSequenceNumber(p))

\* processPacket, line 130: content that has already been ACKed.
isLostAck(p, lastAckSentOtherSide) ==
    ~isSyn(p) /\ SEQ_LT(getSequenceNumber(p), lastAckSentOtherSide)

\* processPacket, line 168: a pure ACK that acknowledges nothing new.
isRedundantAck(newAckNumber, lastAckSent) == SEQ_LT(newAckNumber, lastAckSent)

\* Mutant: the ack number is not mapped.
mappedAckNumber_Unmapped(S, f, p) == getAckNumber(p)

\* processPacket, line 150: the ack number mapped by the other direction.
mappedAckNumber(S, f, p) ==
    mapAck(S.commons[S.fcbs[f].tcp_common].maintainers[getOppositeFlowDirection(f)],
           getAckNumber(p))

\* setPacketDirty: the dirty annotation.
setPacketDirty(p) == [p EXCEPT !.dirty = TRUE]

\* Mutant: the ack number is written, and the packet marked, unconditionally.
writeAck_Always(p, ackNumber, newAckNumber) ==
    setPacketDirty([p EXCEPT !.ack = newAckNumber])

\* processPacket, lines 179-185: the mapped ack number is written when it differs.
writeAck(p, ackNumber, newAckNumber) ==
    IF ackNumber # newAckNumber
    THEN setPacketDirty([p EXCEPT !.ack = newAckNumber])
    ELSE p

\* What an operation leaves: the snapshot, the packet it hands back, the
\* packets it emits, whether the process died, the call it makes on the next
\* element of the stack (StackElement::...) and the number of bytes it read
\* past the end of the packet.
Outcome(S, returned, sent, crash) ==
    [S |-> S, returned |-> returned, sent |-> sent, crash |-> crash,
     next |-> << >>, overread |-> 0]

\* A call on the next element of the stack.
StackCall(call, p, position, length, graceful, bothSides) ==
    [call |-> call, pkt |-> p, position |-> position, length |-> length,
     graceful |-> graceful, bothSides |-> bothSides]

\* Mutant: the acknowledgement received is recorded in the other direction's
\* maintainer.
processAck_ReceivedByOpposite(S, f, p) ==
    LET r == S.fcbs[f].tcp_common
        o == getOppositeFlowDirection(f)
        ackNumber == getAckNumber(p)
    IN [S EXCEPT
           !.commons[r].maintainers[o] =
               setLastAckReceived(prune(@, ackNumber), ackNumber),
           !.commons[r].retransmissionTimings[o] = signalAck(@, ackNumber)]

\* processPacket, lines 146-160: what the ACK of the packet does to the record.
processAck(S, f, p) ==
    LET r == S.fcbs[f].tcp_common
        d == getFlowDirection(f)
        o == getOppositeFlowDirection(f)
        ackNumber == getAckNumber(p)
    IN [S EXCEPT
           !.commons[r].maintainers[d] = setLastAckReceived(@, ackNumber),
           !.commons[r].maintainers[o] = prune(@, ackNumber),
           !.commons[r].retransmissionTimings[o] = signalAck(@, ackNumber)]

\* Mutant: the redundant pure-ACK test comes before the ACK is recorded, and
\* the ack number is mapped after the prune.
processAssigned_RedundantTestFirst(S, f, p) ==
    LET r == S.fcbs[f].tcp_common
        d == getFlowDirection(f)
        o == getOppositeFlowDirection(f)
        cc == checkConnectionClosed(S, f, p)
        packet == [p EXCEPT !.contentOffset = PayloadOffset]
        lastAckSentOtherSide == getLastAckSent(S.commons[r].maintainers[o])
        S2 == processAck(S, f, packet)
        newAckNumber == mappedAckNumber(S2, f, packet)
    IN IF ~cc.open THEN Outcome(S, << >>, cc.sent, FALSE)
       ELSE IF isLostAck(packet, lastAckSentOtherSide)
       THEN Outcome(S, << >>, <<ackPacket(S, f, packet, FALSE)>>, FALSE)
       ELSE IF ~isAck(packet) THEN Outcome(S, <<packet>>, << >>, FALSE)
       ELSE IF isJustAnAck(packet)
               /\ isRedundantAck(newAckNumber,
                                 getLastAckSent(S.commons[r].maintainers[d]))
       THEN Outcome(S, << >>, << >>, FALSE)
       ELSE Outcome(S2, <<writeAck(packet, getAckNumber(packet), newAckNumber)>>,
                    << >>, FALSE)

\* processPacket, lines 115-192: from the closing check on.
processAssigned(S, f, p) ==
    LET r == S.fcbs[f].tcp_common
        d == getFlowDirection(f)
        o == getOppositeFlowDirection(f)
        cc == checkConnectionClosed(S, f, p)
        packet == [p EXCEPT !.contentOffset = PayloadOffset]
        lastAckSentOtherSide == getLastAckSent(S.commons[r].maintainers[o])
        newAckNumber == mappedAckNumber(S, f, packet)
        S2 == processAck(S, f, packet)
    IN IF ~cc.open THEN Outcome(S, << >>, cc.sent, FALSE)
       ELSE IF isLostAck(packet, lastAckSentOtherSide)
       THEN Outcome(S, << >>, <<ackPacket(S, f, packet, FALSE)>>, FALSE)
       ELSE IF ~isAck(packet) THEN Outcome(S, <<packet>>, << >>, FALSE)
       ELSE IF isJustAnAck(packet)
               /\ isRedundantAck(newAckNumber,
                                 getLastAckSent(S2.commons[r].maintainers[d]))
       THEN Outcome(S2, << >>, << >>, FALSE)
       ELSE Outcome(S2, <<writeAck(packet, getAckNumber(packet), newAckNumber)>>,
                    << >>, FALSE)

\* TCPIn::processPacket.
processPacket(S, f, p) ==
    LET S1 == ensurePools(S, f)
    IN IF S1.fcbs[f].tcp_common = NULL
       THEN LET a == assignTCPCommon(S1, f, p)
            IN IF a.crash THEN Outcome(a.S, << >>, << >>, TRUE)
               ELSE IF ~a.ok THEN Outcome(a.S, << >>, << >>, FALSE)
               ELSE processAssigned(a.S, f, p)
       ELSE IF isUnexpectedSyn(p) THEN Outcome(S1, << >>, << >>, FALSE)
       ELSE processAssigned(S1, f, p)

\* Mutant: an ungraceful close leaves the state of this direction at the
\* first value of the enumeration.
newStateSelf_UngracefulUnset(graceful) ==
    IF graceful THEN "BEING_CLOSED_GRACEFUL" ELSE "OPEN"

\* closeConnection, lines 219-227: the new closing state of this direction.
newStateSelf(graceful) ==
    IF graceful THEN "BEING_CLOSED_GRACEFUL" ELSE "BEING_CLOSED_UNGRACEFUL"

\* closeConnection, lines 220-231: the new closing state of the other direction.
newStateOther(graceful) ==
    IF graceful THEN "CLOSED_GRACEFUL" ELSE "CLOSED_UNGRACEFUL"

\* Mutant: the FIN the close has just set is not counted.
closingAckNumber_FlagNotCounted(packet) ==
    Wrap(getSequenceNumber(packet) + getPayloadLength(packet)
         + (IF isSyn(packet) THEN 1 ELSE 0))

\* closeConnection, lines 246-249: the ack number of the closing packet, read
\* from the packet after line 217 has set its FIN or RST flag.
closingAckNumber(packet) ==
    Wrap(getSequenceNumber(packet) + getPayloadLength(packet)
         + (IF isFin(packet) \/ isSyn(packet) THEN 1 ELSE 0))

\* Mutant: every close resets the connection.
newFlag_AlwaysRst(graceful) == "RST"

\* closeConnection, lines 207-212: the flag the close adds to the packet.
newFlag(graceful) == IF graceful THEN "FIN" ELSE "RST"

\* TCPIn::closeConnection on the packet being processed.
closeConnection(S, f, p, graceful, bothSides) ==
    LET r == S.fcbs[f].tcp_common
        d == getFlowDirection(f)
        o == getOppositeFlowDirection(f)
        packet == [p EXCEPT !.flags = @ \cup {newFlag(graceful)}]
        S1 == [S EXCEPT !.commons[r].closingStates[d] = newStateSelf(graceful)]
        S2 == [S1 EXCEPT !.commons[r].closingStates[o] = newStateOther(graceful)]
        seq == mapSeq(S.commons[r].maintainers[o], getAckNumber(packet))
        ack == closingAckNumber(packet)
        call == StackCall("closeConnection", packet, 0, 0, graceful, bothSides)
    IN IF bothSides
       THEN [Outcome(S2, <<packet>>,
                     <<sendClosingPacket(getDestinationAddress(packet),
                                         getSourceAddress(packet),
                                         getDestinationPort(packet),
                                         getSourcePort(packet), seq, ack, graceful)>>,
                     FALSE) EXCEPT !.next = <<call>>]
       ELSE [Outcome(S1, <<packet>>, << >>, FALSE) EXCEPT !.next = <<call>>]

\* Mutant: a clean list is set for the packet every time.
getModificationList_AlwaysNew(S, f, p) ==
    LET lists == S.fcbs[f].modificationLists
        key == getSequenceNumber(p)
    IN [S EXCEPT !.fcbs[f].modificationLists =
           [k \in DOMAIN lists \cup {key} |->
               IF k = key THEN NewModificationList ELSE lists[k]]]

\* TCPIn::getModificationList: the list of the packet's original sequence
\* number, created empty when there is none.
getModificationList(S, f, p) ==
    LET lists == S.fcbs[f].modificationLists
        key == getSequenceNumber(p)
    IN IF key \in DOMAIN lists
       THEN S
       ELSE [S EXCEPT !.fcbs[f].modificationLists =
                [k \in DOMAIN lists \cup {key} |->
                    IF k = key THEN NewModificationList ELSE lists[k]],
                      !.listPool[getFlowDirection(f)] = @ + 1]

\* getModificationList, lines 274-278: the list is constructed in the memory
\* the pool returns, whatever the pool returns; this tells when the pool has
\* none and the constructor writes through an invalid pointer.
listConstructedAtNull(S, f, p) ==
    /\ getSequenceNumber(p) \notin DOMAIN S.fcbs[f].modificationLists
    /\ getMemoryFails(S.listPool[getFlowDirection(f)], MODIFICATIONLISTS_POOL_SIZE)

\* TCPIn::hasModificationList.
hasModificationList(S, f, p) ==
    getSequenceNumber(p) \in DOMAIN S.fcbs[f].modificationLists

\* Mutant: the edit is recorded at the start of the packet.
modificationPosition_PacketStart(p, position) == getSequenceNumber(p)

\* removeBytes, lines 298-303, and insertBytes, lines 317-322: the point of
\* the original stream an edit at a payload-relative position is recorded at.
modificationPosition(p, position) ==
    Wrap(getSequenceNumber(p) + (position + p.contentOffset) - PayloadOffset)

\* Packet::length(): the headers and the payload.
packetLength(p) == PayloadOffset + Len(p.payload)

\* The content offset annotation and the content of a packet: the bytes from
\* the content offset to the end of the packet.
getContentOffset(p) == p.contentOffset
getPacketContent(p) ==
    SubSeq(p.payload, getContentOffset(p) - PayloadOffset + 1, Len(p.payload))

\* removeBytes, line 306: the number of bytes memmove copies, from the
\* packet-relative position to the end of the packet.
bytesAfter(p, position) == packetLength(p) - position

\* removeBytes, line 308: memmove reads bytesAfter bytes starting length bytes
\* after the position; this is how many of them lie past the end of the packet.
bytesReadPastEnd(p, position, length) ==
    LET readEnd == position + length + bytesAfter(p, position)
    IN IF readEnd > packetLength(p) THEN readEnd - packetLength(p) ELSE 0

\* Mutant: the position is taken from the start of the payload, whatever the
\* content offset.
removeBytes_FromPayloadStart(S, f, p, position, length) ==
    LET S1 == getModificationList(S, f, p)
        packet == [p EXCEPT !.payload =
                      SubSeq(@, 1, position) \o SubSeq(@, position + length + 1, Len(@))]
    IN [Outcome([S1 EXCEPT !.fcbs[f].modificationLists[getSequenceNumber(p)] =
                    addModification(@, modificationPosition(p, position), -length)],
                <<packet>>, << >>, FALSE)
        EXCEPT !.next = <<StackCall("removeBytes", packet, position, length,
                                    FALSE, FALSE)>>]

\* TCPIn::removeBytes: the edit goes to the packet's list and the bytes after
\* it move down.  position is relative to the content of the packet.  The
\* bytes memmove reads past the end land in the part take() cuts off.
removeBytes(S, f, p, position, length) ==
    LET S1 == getModificationList(S, f, p)
        at == (position + p.contentOffset) - PayloadOffset
        packet == [p EXCEPT !.payload =
                      SubSeq(@, 1, at) \o SubSeq(@, at + length + 1, Len(@))]
        call == StackCall("removeBytes", packet, position + p.contentOffset,
                          length, FALSE, FALSE)
    IN IF listConstructedAtNull(S, f, p) THEN Outcome(S, << >>, << >>, TRUE)
       ELSE
       [Outcome([S1 EXCEPT !.fcbs[f].modificationLists[getSequenceNumber(p)] =
                    addModification(@, modificationPosition(p, position), -length)],
                <<packet>>, << >>, FALSE)
        EXCEPT !.next = <<call>>,
               !.overread = bytesReadPastEnd(p, position + p.contentOffset, length)]

\* TCPIn::insertBytes: the edit goes to the packet's list, the packet grows
\* and the bytes after the position move up.  The gap keeps what the buffer
\* held there; the caller fills it.  No call goes to the next element.
insertBytes(S, f, p, position, length) ==
    LET S1 == getModificationList(S, f, p)
        at == (position + p.contentOffset) - PayloadOffset
        gap == [i \in 1..length |->
                   IF at + i <= Len(p.payload) THEN p.payload[at + i] ELSE "?"]
        packet == [p EXCEPT !.payload =
                      SubSeq(@, 1, at) \o gap \o SubSeq(@, at + 1, Len(@))]
    IN IF listConstructedAtNull(S, f, p) THEN Outcome(S, << >>, << >>, TRUE)
       ELSE
       Outcome([S1 EXCEPT !.fcbs[f].modificationLists[getSequenceNumber(p)] =
                   addModification(@, modificationPosition(p, position), length)],
               <<packet>>, << >>, FALSE)

\* TCPIn::requestMorePackets: the packet is ACKed with ackMapped = true and
\* stays with the element that asked.
requestMorePackets(S, f, p) ==
    [Outcome(S, << >>, <<ackPacket(S, f, p, TRUE)>>, FALSE)
     EXCEPT !.next = <<StackCall("requestMorePackets", p, 0, 0, FALSE, FALSE)>>]

\* TCPIn::setPacketDirty called as a hook of the stack: the packet is
\* annotated and the call goes on.
setPacketDirtyHook(S, f, p) ==
    [Outcome(S, <<setPacketDirty(p)>>, << >>, FALSE)
     EXCEPT !.next = <<StackCall("setPacketDirty", setPacketDirty(p), 0, 0,
                                 FALSE, FALSE)>>]

\* TCP-Out (specification, section 4.6) on a packet TCPIn forwarded: the
\* modification list of the packet is applied to this direction's maintainer,
\* the sequence number is rewritten through the maintainer and the
\* acknowledgement the packet carries becomes lastAckSent.
tcpOutProcess(S, f, p) ==
    LET r == S.fcbs[f].tcp_common
        d == getFlowDirection(f)
        list == IF hasModificationList(S, f, p)
                THEN S.fcbs[f].modificationLists[getSequenceNumber(p)]
                ELSE NewModificationList
        m == commit(S.commons[r].maintainers[d], list)
    IN Outcome([S EXCEPT !.commons[r].maintainers[d] =
                   IF isAck(p) THEN setLastAckSent(m, getAckNumber(p)) ELSE m],
               << >>,
               <<[p EXCEPT !.seq = mapSeq(m, getSequenceNumber(p))]>>,
               FALSE)

-----------------------------------------------------------------------------
(* FlowBuffer and its iterators (flowbuffer.hh).  The buffer is the batch    *)
(* `head`, a sequence of packets; a packet pointer is the id of the packet  *)
(* and NULL is the null pointer.                                             *)

(* The batch and the pattern functions are implemented outside the header   *)
(* and are modelled from the specification (section 4.3).                    *)

\* FlowBuffer::FlowBuffer: no batch yet.  iter is the content iterator the
\* element that owns the buffer keeps, visited the bytes it has read since
\* contentBegin() and chain the packets the buffer held then; out lists the
\* packets that have left the buffer.
NewFlowBuffer ==
    [head |-> << >>, iter |-> [entry |-> NULL, offsetInPacket |-> 0],
     visited |-> << >>, chain |-> << >>, out |-> << >>]

\* A packet pointer is the id of the packet.
indexOf(head, entry) == CHOOSE i \in 1..Len(head) : head[i].id = entry
firstPacket(head) == IF head = << >> THEN NULL ELSE head[1].id

\* Packet::next(): the packet that follows in the batch.
nextPacket(head, entry) ==
    IF indexOf(head, entry) = Len(head) THEN NULL
    ELSE head[indexOf(head, entry) + 1].id

\* The loop of lines 315-320 and 363-368: while the offset is not inside the
\* content of the packet, go to the start of the next packet.
RECURSIVE skipToContent(_, _, _)
skipToContent(head, entry, offsetInPacket) ==
    IF entry # NULL
       /\ getContentOffset(head[indexOf(head, entry)]) + offsetInPacket
             >= packetLength(head[indexOf(head, entry)])
    THEN skipToContent(head, nextPacket(head, entry), 0)
    ELSE [entry |-> entry, offsetInPacket |-> offsetInPacket]

\* Mutant: the iterator is built on the packet it is given, valid or not.
FlowBufferContentIter_NoSkip(head, entry, posInFirstPacket) ==
    [entry |-> entry, offsetInPacket |-> posInFirstPacket]

\* FlowBufferContentIter::FlowBufferContentIter.
FlowBufferContentIter(head, entry, posInFirstPacket) ==
    skipToContent(head, entry, posInFirstPacket)

\* Mutant: at the end of a packet the iterator moves to the next packet
\* without looking whether that one has content.
iterNext_OnePacket(head, iter) ==
    LET p == head[indexOf(head, iter.entry)]
    IN IF getContentOffset(p) + iter.offsetInPacket + 1 >= packetLength(p)
       THEN [entry |-> nextPacket(head, iter.entry), offsetInPacket |-> 0]
       ELSE [entry |-> iter.entry, offsetInPacket |-> iter.offsetInPacket + 1]

\* FlowBufferContentIter::operator++.
iterNext(head, iter) == skipToContent(head, iter.entry, iter.offsetInPacket + 1)

\* FlowBufferContentIter::operator== for two iterators of one buffer.
iterEquals(a, b) ==
    IF a.entry = NULL /\ b.entry = NULL THEN TRUE
    ELSE IF a.entry # b.entry THEN FALSE
    ELSE a.offsetInPacket = b.offsetInPacket

\* FlowBufferContentIter::operator*.  An offset outside the content reads a
\* byte that is not the packet's.
iterDeref(head, iter) ==
    LET content == getPacketContent(head[indexOf(head, iter.entry)])
    IN IF iter.offsetInPacket < Len(content)
       THEN content[iter.offsetInPacket + 1]
       ELSE "?"

\* Mutant: a packet goes to the front of the buffer.
enqueue_AtFront(head, p) == <<p>> \o head

\* FlowBuffer::enqueue, dequeue, dequeueAll, dequeueUpTo and enqueueAll.
enqueue(head, p) == Append(head, p)

dequeue(head) ==
    IF head = << >> THEN [head |-> head, returned |-> << >>]
    ELSE [head |-> Tail(head), returned |-> <<Head(head)>>]

dequeueAll(head) == [head |-> << >>, returned |-> head]

dequeueUpTo(head, entry) ==
    [head |-> SubSeq(head, indexOf(head, entry), Len(head)),
     returned |-> SubSeq(head, 1, indexOf(head, entry) - 1)]

enqueueAll(head, batch) == head \o batch

\* FlowBuffer::contentBegin and contentEnd.
contentBegin(head, posInFirstPacket) ==
    FlowBufferContentIter(head, firstPacket(head), posInFirstPacket)
contentEnd == [entry |-> NULL, offsetInPacket |-> 0]

\* Mutant: flush hands over the packet the iterator is in as well.
flush_WithCurrent(head, iter) ==
    IF iter.entry = NULL THEN dequeueAll(head)
    ELSE IF nextPacket(head, iter.entry) = NULL THEN dequeueAll(head)
    ELSE dequeueUpTo(head, nextPacket(head, iter.entry))

\* FlowBufferContentIter::flush.
flush(head, iter) ==
    IF iter.entry = NULL THEN dequeueAll(head)
    ELSE dequeueUpTo(head, iter.entry)

\* How many bytes of the pattern, from byte n + 1 on, the content at the
\* iterator matches, and whether the content ran out first.
RECURSIVE matchLength(_, _, _, _)
matchLength(head, iter, pattern, n) ==
    IF n = Len(pattern) THEN [matched |-> n, atEnd |-> FALSE]
    ELSE IF iter.entry = NULL THEN [matched |-> n, atEnd |-> TRUE]
    ELSE IF iterDeref(head, iter) = pattern[n + 1]
    THEN matchLength(head, iterNext(head, iter), pattern, n + 1)
    ELSE [matched |-> n, atEnd |-> FALSE]

\* Mutant: a match the end of the content cuts short is not reported.
search_NoPartial(head, start, pattern) ==
    IF \E i \in 1..Len(head) : \E o \in 0..Len(head[i].payload) :
          /\ ~iterEquals(FlowBufferContentIter(head, head[i].id, o), contentEnd)
          /\ matchLength(head, FlowBufferContentIter(head, head[i].id, o),
                         pattern, 0).matched = Len(pattern)
    THEN [iter |-> contentBegin(head, 0), feedback |-> 1]
    ELSE [iter |-> contentEnd, feedback |-> -1]

\* FlowBuffer::search: a scan with the content iterator from start.  The
\* result is the iterator at the first occurrence and feedback 1, or
\* contentEnd() with feedback 0 when the content ends inside a match and -1
\* when it does not.
RECURSIVE search(_, _, _)
search(head, start, pattern) ==
    IF start.entry = NULL THEN [iter |-> contentEnd, feedback |-> -1]
    ELSE LET m == matchLength(head, start, pattern, 0)
         IN IF m.matched = Len(pattern) THEN [iter |-> start, feedback |-> 1]
            ELSE IF m.atEnd /\ m.matched > 0
            THEN [iter |-> contentEnd, feedback |-> 0]
            ELSE search(head, iterNext(head, start), pattern)

\* FlowBuffer::searchInFlow.
searchInFlow(head, pattern) == search(head, contentBegin(head, 0), pattern).feedback

\* FlowBuffer::remove: the bytes go packet by packet, each packet through the
\* owner's removeBytes, which for the stack ends in TCPIn::removeBytes.
RECURSIVE remove(_, _, _, _, _)
remove(S, f, head, start, length) ==
    IF length = 0 \/ start.entry = NULL THEN [S |-> S, head |-> head]
    ELSE LET i == indexOf(head, start.entry)
             inPacket == Len(getPacketContent(head[i])) - start.offsetInPacket
             n == IF length < inPacket THEN length ELSE inPacket
             R == removeBytes(S, f, head[i], start.offsetInPacket, n)
             shorter == [head EXCEPT ![i] = R.returned[1]]
         IN remove(R.S, f, shorter,
                   FlowBufferContentIter(shorter, nextPacket(shorter, start.entry), 0),
                   length - n)

\* FlowBuffer::removeInFlow: the first occurrence of the pattern is removed.
removeInFlow(S, f, head, pattern) ==
    LET found == search(head, contentBegin(head, 0), pattern)
    IN IF found.feedback = 1
       THEN LET R == remove(S, f, head, found.iter, Len(pattern))
            IN [S |-> R.S, head |-> R.head, feedback |-> 1]
       ELSE [S |-> S, head |-> head, feedback |-> found.feedback]

-----------------------------------------------------------------------------
(* The state machine                                                         *)

NoPacket == [none |-> TRUE]
NoFcb == <<2, NoFlow>>

\* The FCB of the other direction of the connection of FCB f.
OppositeFcb(f) == <<1 - f[1], <<f[2][3], f[2][4], f[2][1], f[2][2]>>>>

\* The packets the network delivers to the element of FCB f.  They carry the
\* flow id the classifier matched, and arrive with a clean dirty annotation.
Packets(f) ==
    [flow : {f[2]}, flags : FlagSets, seq : SeqVals, ack : AckVals,
     len : LenVals, dirty : {FALSE}, contentOffset : {0}]

\* One endpoint opens the connection: no SYN without ACK starts a direction
\* whose opposite direction is already tracked.
Delivered(f, p) ==
    ~(/\ fcbs[f].tcp_common = NULL
      /\ fcbs[OppositeFcb(f)].tcp_common # NULL
      /\ isSyn(p) /\ ~isAck(p))

\* The closing states in which a direction is closed.
ClosedStates == {"CLOSED_GRACEFUL", "CLOSED_UNGRACEFUL"}

\* No direction has closed and no record has gone back to its pool.
NewLifetime == [closedLast |-> NULL - 1, released |-> 0]

\* The direction that a step has brought to a closed state is from then on
\* the last one that closed.
closedAfter(l, before, after) ==
    LET newly == {d \in Dirs : \E r \in DOMAIN before :
                     /\ before[r].closingStates[d] \notin ClosedStates
                     /\ after[r].closingStates[d] \in ClosedStates}
    IN IF newly = {} THEN l
       ELSE [l EXCEPT !.closedLast = CHOOSE d \in newly : TRUE]

Init ==
    /\ fcbs = [f \in Fcbs |-> NewFcb]
    /\ tableFcbTcpCommon = [d \in Dirs |-> [id \in FlowIds |-> NULL]]
    /\ poolFcbTcpCommon = [d \in Dirs |-> 0]
    /\ commons = << >>
    /\ last = [op |-> "init", fcb |-> NoFcb, pkt |-> NoPacket,
               returned |-> << >>, sent |-> << >>,
               graceful |-> FALSE, bothSides |-> FALSE]
    /\ failed = FALSE
    /\ script = 0
    /\ poolModificationLists = [d \in Dirs |-> 0]
    /\ flowBuffer = NewFlowBuffer
    /\ lifetime = NewLifetime

InstallCall(R, op, f, p, graceful, bothSides, position, length) ==
    /\ fcbs' = R.S.fcbs
    /\ tableFcbTcpCommon' = R.S.table
    /\ poolFcbTcpCommon' = R.S.pool
    /\ commons' = R.S.commons
    /\ poolModificationLists' = R.S.listPool
    /\ failed' = R.crash
    /\ UNCHANGED flowBuffer
    /\ lifetime' = closedAfter(lifetime, commons, R.S.commons)
    /\ last' = [op |-> op, fcb |-> f, pkt |-> p,
                returned |-> R.returned, sent |-> R.sent,
                graceful |-> graceful, bothSides |-> bothSides,
                position |-> position, length |-> length,
                next |-> R.next, overread |-> R.overread]

Install(R, op, f, p, graceful, bothSides) ==
    InstallCall(R, op, f, p, graceful, bothSides, 0, 0)

\* A packet of flow f reaches its TCPIn element.
ProcessPacket ==
    /\ ~failed
    /\ \E f \in Fcbs : \E p \in Packets(f) :
         /\ Delivered(f, p)
         /\ Install(processPacket(State, f, p), "processPacket", f, p,
                    FALSE, FALSE)
    /\ UNCHANGED script

\* The packet TCPIn forwarded is still in the stack.
InStack == last.op \in {"processPacket", "closeConnection"} /\ last.returned # << >>

\* An element further down the stack closes the connection on the packet.
CloseConnection ==
    /\ ~failed
    /\ InStack
    /\ \E graceful \in BOOLEAN : \E bothSides \in BOOLEAN :
           Install(closeConnection(State, last.fcb, last.returned[1],
                                   graceful, bothSides),
                   "closeConnection", last.fcb, last.returned[1],
                   graceful, bothSides)
    /\ UNCHANGED script

\* The packet reaches the TCPOut element of its direction and leaves.
TcpOut ==
    /\ ~failed
    /\ InStack
    /\ Install(tcpOutProcess(State, last.fcb, last.returned[1]),
               "tcpOut", NoFcb, NoPacket, FALSE, FALSE)
    /\ UNCHANGED script

\* TCP-Out pushes an edit of direction d into the maintainer of record r.
InsertModification ==
    /\ ~failed
    /\ \E r \in 1..Len(commons) : \E d \in Dirs :
       \E key \in ModKeys : \E delta \in ModDeltas :
           /\ commons[r].maintainers[d].initialized
           /\ key \notin DOMAIN commons[r].maintainers[d].tree
           /\ commons' = [commons EXCEPT ![r].maintainers[d] =
                              insertModification(@, key, delta)]
           /\ last' = [op |-> "insertModification", fcb |-> NoFcb, pkt |-> NoPacket,
                       returned |-> << >>, sent |-> << >>,
                       graceful |-> FALSE, bothSides |-> FALSE]
           /\ UNCHANGED <<fcbs, tableFcbTcpCommon, poolFcbTcpCommon, failed, script,
                          poolModificationLists, flowBuffer, lifetime>>

Next == ProcessPacket \/ CloseConnection \/ TcpOut \/ InsertModification

Spec == Init /\ [][Next]_vars

-----------------------------------------------------------------------------
(* Properties.  A step of processPacket is recognised by last'.op; lp and    *)
(* lf are the packet and the FCB it was given.                               *)

IsProcessPacketStep == last'.op = "processPacket"

\* The ACK that answers packet p with ackMapped = false.
PlainAckOf(p) ==
    [flow |-> <<p.flow[3], p.flow[4], p.flow[1], p.flow[2]>>,
     flags |-> {"ACK"},
     seq |-> p.ack,
     ack |-> (p.seq + p.len
              + (IF "FIN" \in p.flags \/ "SYN" \in p.flags THEN 1 ELSE 0)) % SeqMod,
     len |-> 0, dirty |-> FALSE, contentOffset |-> 0]

\* C1: on an FCB without TcpCommon, a packet whose SYN flag is clear is
\* dropped: processPacket returns no packet, allocates no TcpCommon, adds no
\* entry to the flow-id table and leaves the FCB without a TcpCommon.
C1_NonSynFirstPacketRejected ==
    [][(/\ IsProcessPacketStep
        /\ fcbs[last'.fcb].tcp_common = NULL
        /\ "SYN" \notin last'.pkt.flags)
       => (/\ last'.returned = << >>
           /\ ~failed'
           /\ commons' = commons
           /\ poolFcbTcpCommon' = poolFcbTcpCommon
           /\ tableFcbTcpCommon' = tableFcbTcpCommon
           /\ fcbs'[last'.fcb].tcp_common = NULL)]_vars

\* C1 witness: a non-SYN packet was dropped on an FCB that has no TcpCommon.
C1_Witness ==
    /\ last.op = "processPacket"
    /\ "SYN" \notin last.pkt.flags
    /\ fcbs[last.fcb].tcp_common = NULL
    /\ last.returned = << >>

\* C2: a SYN without ACK on an FCB without TcpCommon takes exactly one record
\* from this element's pool, publishes it in this element's table under
\* (src addr, src port, dst addr, dst port), stores it in the FCB and marks
\* the direction as owner; both closing states of the new record are OPEN.
C2_InitiatorAllocatesAndPublishes ==
    [][(/\ IsProcessPacketStep
        /\ fcbs[last'.fcb].tcp_common = NULL
        /\ "SYN" \in last'.pkt.flags
        /\ "ACK" \notin last'.pkt.flags)
       => LET f == last'.fcb
              d == f[1]
              p == last'.pkt
              key == <<p.flow[1], p.flow[2], p.flow[3], p.flow[4]>>
              new == Len(commons) + 1
          IN /\ ~failed'
             /\ Len(commons') = new
             /\ \A r \in 1..Len(commons) : commons'[r] = commons[r]
             /\ poolFcbTcpCommon'[d] = poolFcbTcpCommon[d] + 1
             /\ poolFcbTcpCommon'[1 - d] = poolFcbTcpCommon[1 - d]
             /\ tableFcbTcpCommon'[d][key] = new
             /\ \A id \in FlowIds \ {key} :
                    tableFcbTcpCommon'[d][id] = tableFcbTcpCommon[d][id]
             /\ tableFcbTcpCommon'[1 - d] = tableFcbTcpCommon[1 - d]
             /\ fcbs'[f].tcp_common = new
             /\ fcbs'[f].inChargeOfTcpCommon = TRUE
             /\ \A e \in Dirs : commons'[new].closingStates[e] = "OPEN"]_vars

\* C2 witness: the initiator's SYN went through and its FCB owns a record.
C2_Witness ==
    /\ last.op = "processPacket"
    /\ last.pkt.flags = {"SYN"}
    /\ last.returned # << >>
    /\ fcbs[last.fcb].tcp_common # NULL
    /\ fcbs[last.fcb].inChargeOfTcpCommon

\* C3: once the initiator's SYN has been processed in direction 1-d, the
\* SYN+ACK processed in direction d attaches the record found under the
\* reversed 4-tuple (dst addr, dst port, src addr, src port) in the return
\* element's table: both directions then reference the same record, nothing
\* is allocated and the responder is marked non-owner.
C3_ResponderSharesRecord ==
    [][(/\ IsProcessPacketStep
        /\ fcbs[last'.fcb].tcp_common = NULL
        /\ "SYN" \in last'.pkt.flags
        /\ "ACK" \in last'.pkt.flags
        /\ fcbs[OppositeFcb(last'.fcb)].tcp_common # NULL
        /\ fcbs[OppositeFcb(last'.fcb)].inChargeOfTcpCommon)
       => LET f == last'.fcb
              d == f[1]
              p == last'.pkt
              reversed == <<p.flow[3], p.flow[4], p.flow[1], p.flow[2]>>
          IN /\ ~failed'
             /\ fcbs'[f].tcp_common = tableFcbTcpCommon[1 - d][reversed]
             /\ fcbs'[f].tcp_common # NULL
             /\ fcbs'[f].tcp_common = fcbs'[OppositeFcb(f)].tcp_common
             /\ fcbs'[f].inChargeOfTcpCommon = FALSE
             /\ Len(commons') = Len(commons)
             /\ poolFcbTcpCommon' = poolFcbTcpCommon
             /\ tableFcbTcpCommon' = tableFcbTcpCommon]_vars

\* C3 witness: a SYN+ACK was forwarded and both FCBs hold the same record.
C3_Witness ==
    /\ last.op = "processPacket"
    /\ last.pkt.flags = {"SYN", "ACK"}
    /\ last.returned # << >>
    /\ fcbs[last.fcb].tcp_common # NULL
    /\ fcbs[last.fcb].tcp_common = fcbs[OppositeFcb(last.fcb)].tcp_common
    /\ ~fcbs[last.fcb].inChargeOfTcpCommon
    /\ fcbs[OppositeFcb(last.fcb)].inChargeOfTcpCommon

\* C4: a SYN+ACK on an FCB without TcpCommon whose reversed 4-tuple is not in
\* the return element's table is dropped: no packet is returned, no record is
\* attached, no field of any record is written and processing does not fail.
C4_UnknownSynAckDropped ==
    [][(/\ IsProcessPacketStep
        /\ fcbs[last'.fcb].tcp_common = NULL
        /\ "SYN" \in last'.pkt.flags
        /\ "ACK" \in last'.pkt.flags
        /\ LET p == last'.pkt
           IN tableFcbTcpCommon[1 - last'.fcb[1]]
                  [<<p.flow[3], p.flow[4], p.flow[1], p.flow[2]>>] = NULL)
       => (/\ ~failed'
           /\ last'.returned = << >>
           /\ fcbs'[last'.fcb].tcp_common = NULL
           /\ commons' = commons)]_vars

\* C5: once an FCB has its TcpCommon, a packet with the SYN flag (with or
\* without ACK) is dropped with no state change: the records (closing states,
\* lastAckReceived, lastAckSent, maintainers), the flow-id tables, the pools
\* and the FCBs are unchanged, and no ACK is emitted.
C5_UnexpectedSynDroppedNoChange ==
    [][(/\ IsProcessPacketStep
        /\ fcbs[last'.fcb].tcp_common # NULL
        /\ "SYN" \in last'.pkt.flags)
       => (/\ last'.returned = << >>
           /\ last'.sent = << >>
           /\ ~failed'
           /\ commons' = commons
           /\ tableFcbTcpCommon' = tableFcbTcpCommon
           /\ poolFcbTcpCommon' = poolFcbTcpCommon
           /\ fcbs' = fcbs)]_vars

\* C5 witness: a SYN without ACK was dropped on an FCB that has its record (a
\* SYN that starts a connection is forwarded, so this one came later).
C5_Witness ==
    /\ last.op = "processPacket"
    /\ last.pkt.flags = {"SYN"}
    /\ fcbs[last.fcb].tcp_common # NULL
    /\ last.returned = << >>
    /\ ~failed

\* C6: a packet arriving on a direction whose closing state is not OPEN is
\* never forwarded: processPacket returns no packet, and the ack of the packet
\* is not recorded in lastAckReceived (no ACK handling takes place: the
\* opposite maintainer and retransmission timing are untouched as well).
C6_ClosedDirectionNeverForwards ==
    [][(/\ IsProcessPacketStep
        /\ ~failed'
        /\ fcbs'[last'.fcb].tcp_common # NULL
        /\ commons'[fcbs'[last'.fcb].tcp_common].closingStates[last'.fcb[1]] # "OPEN")
       => LET r == fcbs'[last'.fcb].tcp_common
              d == last'.fcb[1]
          IN /\ last'.returned = << >>
             /\ commons'[r].maintainers[d].lastAckReceived
                    = commons[r].maintainers[d].lastAckReceived
             /\ commons'[r].maintainers[1 - d] = commons[r].maintainers[1 - d]
             /\ commons'[r].retransmissionTimings = commons[r].retransmissionTimings
             /\ commons'[r].closingStates = commons[r].closingStates]_vars

\* C6 witness: a packet carrying an ACK was dropped on a direction that is not
\* OPEN while the opposite maintainer held an edit its ack would have pruned.
C6_Witness ==
    /\ last.op = "processPacket"
    /\ ~failed
    /\ "ACK" \in last.pkt.flags
    /\ "SYN" \notin last.pkt.flags
    /\ fcbs[last.fcb].tcp_common # NULL
    /\ commons[fcbs[last.fcb].tcp_common].closingStates[last.fcb[1]] # "OPEN"
    /\ commons[fcbs[last.fcb].tcp_common].maintainers[1 - last.fcb[1]].tree # << >>
    /\ last.returned = << >>

\* C7 as claimed: in every closing state other than OPEN, a packet carrying
\* payload, SYN or FIN is answered by exactly one ACK built with
\* ackMapped = false, and any other packet by none.
C7_AckInEveryClosingState ==
    (/\ last.op = "processPacket"
     /\ ~failed
     /\ fcbs[last.fcb].tcp_common # NULL
     /\ commons[fcbs[last.fcb].tcp_common].closingStates[last.fcb[1]] # "OPEN")
    => IF \/ last.pkt.len > 0
          \/ "SYN" \in last.pkt.flags
          \/ "FIN" \in last.pkt.flags
       THEN last.sent = <<PlainAckOf(last.pkt)>>
       ELSE last.sent = << >>

\* C7 amended: a packet carrying payload, SYN or FIN that reaches the closing
\* check (it is not a SYN on an FCB that already has its TcpCommon) on a
\* direction in BEING_CLOSED_GRACEFUL or CLOSED_GRACEFUL is answered by
\* exactly one ACK built with ackMapped = false; in the ungraceful closing
\* states, for a SYN on an FCB that has its TcpCommon, and for a packet with
\* no payload, no SYN and no FIN, no ACK is emitted.
C7_AckOnlyInGracefulClosingStates ==
    [][(/\ IsProcessPacketStep
        /\ ~failed'
        /\ fcbs'[last'.fcb].tcp_common # NULL
        /\ commons'[fcbs'[last'.fcb].tcp_common].closingStates[last'.fcb[1]] # "OPEN")
       => LET p == last'.pkt
              closingState ==
                  commons'[fcbs'[last'.fcb].tcp_common].closingStates[last'.fcb[1]]
              unexpectedSyn ==
                  fcbs[last'.fcb].tcp_common # NULL /\ "SYN" \in p.flags
          IN IF /\ ~unexpectedSyn
                /\ closingState \in {"BEING_CLOSED_GRACEFUL", "CLOSED_GRACEFUL"}
                /\ (p.len > 0 \/ "SYN" \in p.flags \/ "FIN" \in p.flags)
             THEN last'.sent = <<PlainAckOf(p)>>
             ELSE last'.sent = << >>]_vars

\* C7 witness: a data packet on a gracefully closed direction was answered by
\* one ACK.
C7_Witness ==
    /\ last.op = "processPacket"
    /\ ~failed
    /\ fcbs[last.fcb].tcp_common # NULL
    /\ commons[fcbs[last.fcb].tcp_common].closingStates[last.fcb[1]]
           \in {"BEING_CLOSED_GRACEFUL", "CLOSED_GRACEFUL"}
    /\ last.pkt.len > 0
    /\ Len(last.sent) = 1
    /\ last.returned = << >>

\* Serial-number "strictly less than" at the width of the sequence numbers.
SerialLess(a, b) == ((a - b + SeqMod) % SeqMod) >= SeqMod \div 2

C9_ForwardedAckIsMapped ==
    [][(/\ IsProcessPacketStep
        /\ last'.returned # << >>)
       => LET p == last'.pkt
              q == last'.returned[1]
              r == fcbs'[last'.fcb].tcp_common
              o == 1 - last'.fcb[1]
          IN IF "ACK" \in p.flags
             THEN /\ q.ack = mapAck(commons[r].maintainers[o], p.ack)
                  /\ q.dirty <=> (q.ack # p.ack)
             ELSE /\ q.ack = p.ack
                  /\ ~q.dirty]_vars

\* C9 witness: a packet was forwarded with a rewritten ack number, marked
\* dirty, and its prune emptied the tree that mapped it.
C9_Witness ==
    /\ last.op = "processPacket"
    /\ last.returned # << >>
    /\ "ACK" \in last.pkt.flags
    /\ last.returned[1].ack # last.pkt.ack
    /\ last.returned[1].dirty
    /\ commons[fcbs[last.fcb].tcp_common].maintainers[1 - last.fcb[1]].tree = << >>

\* C10: a pure ACK (no payload, flags exactly ACK) that reaches the ACK
\* handling is dropped exactly when its mapped ack number is less than or
\* equal to this direction's lastAckSent: dropped when equal, forwarded when
\* strictly greater.
C10_PureAckDroppedUnlessNewer ==
    [][(/\ IsProcessPacketStep
        /\ fcbs[last'.fcb].tcp_common # NULL
        /\ last'.pkt.flags = {"ACK"}
        /\ last'.pkt.len = 0
        /\ LET r == fcbs[last'.fcb].tcp_common
               d == last'.fcb[1]
           IN /\ commons[r].closingStates[d] = "OPEN"
              /\ ~SerialLess(last'.pkt.seq, commons[r].maintainers[1 - d].lastAckSent))
       => LET r == fcbs[last'.fcb].tcp_common
              d == last'.fcb[1]
              newAck == mapAck(commons[r].maintainers[1 - d], last'.pkt.ack)
              lastAckSent == commons[r].maintainers[d].lastAckSent
          IN (last'.returned = << >>) <=> ~SerialLess(lastAckSent, newAck)]_vars

\* C12: closeConnection(graceful, bothSides = true) in direction d on a packet
\* with sequence number q, ack number a and payload length n sets closing[d]
\* to BEING_CLOSED_GRACEFUL (graceful) or BEING_CLOSED_UNGRACEFUL, closing[1-d]
\* to CLOSED_GRACEFUL or CLOSED_UNGRACEFUL, and emits exactly one closing
\* packet (FIN if graceful, RST otherwise) with addresses and ports swapped,
\* seq = maintainers[1-d].mapSeq(a) and, when graceful, ack = q + n + 1.
C12_CloseBothSides ==
    [][(/\ last'.op = "closeConnection"
        /\ last'.bothSides)
       => LET f == last'.fcb
              d == f[1]
              r == fcbs[f].tcp_common
              p == last'.pkt
              g == last'.graceful
          IN /\ commons'[r].closingStates[d] =
                    (IF g THEN "BEING_CLOSED_GRACEFUL" ELSE "BEING_CLOSED_UNGRACEFUL")
             /\ commons'[r].closingStates[1 - d] =
                    (IF g THEN "CLOSED_GRACEFUL" ELSE "CLOSED_UNGRACEFUL")
             /\ Len(last'.sent) = 1
             /\ last'.sent[1].flow = <<p.flow[3], p.flow[4], p.flow[1], p.flow[2]>>
             /\ IF g THEN "FIN" \in last'.sent[1].flags /\ "RST" \notin last'.sent[1].flags
                     ELSE "RST" \in last'.sent[1].flags /\ "FIN" \notin last'.sent[1].flags
             /\ last'.sent[1].seq = mapSeq(commons[r].maintainers[1 - d], p.ack)
             /\ g => last'.sent[1].ack = (p.seq + p.len + 1) % SeqMod]_vars

\* C12 witness: a graceful close of both sides on a packet without FIN
\* emitted a FIN whose seq is the packet's ack moved by an edit of the
\* opposite direction.
C12_Witness ==
    /\ last.op = "closeConnection"
    /\ last.graceful /\ last.bothSides
    /\ "FIN" \notin last.pkt.flags
    /\ Len(last.sent) = 1
    /\ last.sent[1].seq # last.pkt.ack
    /\ last.sent[1].ack = last.pkt.seq + last.pkt.len + 1
    /\ commons[fcbs[last.fcb].tcp_common].closingStates[last.fcb[1]]
           = "BEING_CLOSED_GRACEFUL"
    /\ commons[fcbs[last.fcb].tcp_common].closingStates[1 - last.fcb[1]]
           = "CLOSED_GRACEFUL"

\* C13: once the closing state of a direction has left OPEN it never becomes
\* OPEN again, whatever processPacket and closeConnection calls follow.
C13_NeverOpenAgain ==
    [][\A r \in 1..Len(commons) : \A d \in Dirs :
          commons[r].closingStates[d] # "OPEN"
          => /\ r <= Len(commons')
             /\ commons'[r].closingStates[d] # "OPEN"]_vars

\* C13 witness: closeConnection ran again, gracefully, on a packet that an
\* ungraceful close of the same direction had already marked with RST, and
\* the direction is still not OPEN.
C13_Witness ==
    /\ last.op = "closeConnection"
    /\ last.graceful
    /\ "RST" \in last.pkt.flags
    /\ commons[fcbs[last.fcb].tcp_common].closingStates[last.fcb[1]]
           = "BEING_CLOSED_GRACEFUL"

\* C14: over any sequence of closeConnection calls, a direction in
\* CLOSED_GRACEFUL or CLOSED_UNGRACEFUL never goes back to a BEING_CLOSED
\* state, and a direction in an ungraceful state is never changed to a
\* graceful state.
C14_ClosingOnlyMovesForward ==
    [][\A r \in 1..Len(commons) : \A d \in Dirs :
          LET before == commons[r].closingStates[d]
              after == commons'[r].closingStates[d]
          IN /\ before \in {"CLOSED_GRACEFUL", "CLOSED_UNGRACEFUL"}
                => after \notin {"BEING_CLOSED_GRACEFUL", "BEING_CLOSED_UNGRACEFUL"}
             /\ before \in {"BEING_CLOSED_UNGRACEFUL", "CLOSED_UNGRACEFUL"}
                => after \notin {"BEING_CLOSED_GRACEFUL", "CLOSED_GRACEFUL"}]_vars

\* The step hands back a packet with an RST flag the packet it was given
\* did not carry.
RstAdded ==
    /\ last'.returned # << >>
    /\ isRst(last'.returned[1])
    /\ ~isRst(last'.pkt)

\* The step emits a packet that carries an RST flag.
RstSent == \E i \in DOMAIN last'.sent : isRst(last'.sent[i])

\* C26: an RST reaches an endpoint, as a forged packet or as a flag added to
\* a forwarded packet, only through closeConnection with graceful = false:
\* no processPacket path and no graceful close produces one, and TCP-Out
\* lets a packet leave with an RST only when it came with it.
C26_RstOnlyOnUngracefulClose ==
    [][/\ (last'.op # "tcpOut" /\ (RstAdded \/ RstSent))
          => (last'.op = "closeConnection" /\ ~last'.graceful)
       /\ (last'.op = "tcpOut" /\ RstSent) => isRst(last.returned[1])]_vars

\* C26 witness: an ungraceful close of both sides has forged an RST for the
\* other endpoint and set the RST flag of the packet it was called on.
C26_Witness ==
    /\ last.op = "closeConnection"
    /\ ~last.graceful
    /\ last.bothSides
    /\ ~isRst(last.pkt)
    /\ isRst(last.returned[1])
    /\ Len(last.sent) = 1
    /\ isRst(last.sent[1])

-----------------------------------------------------------------------------
(* The ByteStreamMaintainer on its own: the maintainer of the client         *)
(* direction of a connection, fed edits by insertModification.               *)

\* Number of insertModification calls in a run of SpecMaintainer.
MaxEdits == 3

\* Points of the stream at which edits are made, the signed lengths of the
\* edits (removals and insertions), and the original sequence numbers mapped.
EditKeys == {1004, 1007, 1010}
EditDeltas == {-3, -1, 2, 3}
OriginalSeqs == 1001..1012

\* The initiator's SYN of scenario S1.
ClientSyn ==
    [flow |-> ClientToServer, flags |-> {"SYN"}, seq |-> 1000, ack |-> 0,
     len |-> 0, dirty |-> FALSE, contentOffset |-> 0, payload |-> << >>]

\* The client direction is tracked once its SYN has been processed.
InitMaintainer ==
    LET S0 == [fcbs |-> [f \in Fcbs |-> NewFcb],
               table |-> [d \in Dirs |-> [id \in FlowIds |-> NULL]],
               pool |-> [d \in Dirs |-> 0],
               commons |-> << >>,
               listPool |-> [d \in Dirs |-> 0]]
        R == processPacket(S0, <<0, ClientToServer>>, ClientSyn)
    IN /\ fcbs = R.S.fcbs
       /\ tableFcbTcpCommon = R.S.table
       /\ poolFcbTcpCommon = R.S.pool
       /\ commons = R.S.commons
       /\ last = [op |-> "processPacket", fcb |-> <<0, ClientToServer>>,
                  pkt |-> ClientSyn, returned |-> R.returned, sent |-> R.sent,
                  graceful |-> FALSE, bothSides |-> FALSE]
       /\ failed = FALSE
       /\ script = 0
       /\ poolModificationLists = R.S.listPool
       /\ flowBuffer = NewFlowBuffer
       /\ lifetime = NewLifetime

\* The maintainer the edits go to.
TheMaintainer == commons[1].maintainers[0]

\* One insertModification(key, delta) call.
MaintainerInsert ==
    /\ script < MaxEdits
    /\ \E key \in EditKeys : \E delta \in EditDeltas :
         /\ commons' = [commons EXCEPT ![1].maintainers[0] =
                            insertModification(@, key, delta)]
         /\ last' = [op |-> "insertModification", fcb |-> NoFcb,
                     pkt |-> [key |-> key, delta |-> delta],
                     returned |-> << >>, sent |-> << >>,
                     graceful |-> FALSE, bothSides |-> FALSE]
    /\ script' = script + 1
    /\ UNCHANGED <<fcbs, tableFcbTcpCommon, poolFcbTcpCommon, failed,
                   poolModificationLists, flowBuffer, lifetime>>

NextMaintainer == MaintainerInsert

SpecMaintainer == InitMaintainer /\ [][NextMaintainer]_vars

\* The tree holds at least one edit and every entry is an insertion.
OnlyInsertions(m) ==
    /\ DOMAIN m.tree # {}
    /\ \A k \in DOMAIN m.tree : m.tree[k] > 0

\* C16 as claimed: after any insertModification calls (insertions and
\* deletions), mapAck(mapSeq(s)) = s for every original sequence number s at
\* or before the last edit.
C16_SequenceBijection ==
    \A s \in OriginalSeqs :
        (DOMAIN TheMaintainer.tree # {} /\ s <= Max(DOMAIN TheMaintainer.tree))
        => mapAck(TheMaintainer, mapSeq(TheMaintainer, s)) = s

\* C16 amended: when every entry of the maintainer is an insertion (a positive
\* delta), mapAck(mapSeq(s)) = s for every original sequence number s at or
\* before the last edit.
C16_BijectionForInsertions ==
    \A s \in OriginalSeqs :
        (OnlyInsertions(TheMaintainer) /\ s <= Max(DOMAIN TheMaintainer.tree))
        => mapAck(TheMaintainer, mapSeq(TheMaintainer, s)) = s

\* C16 witness: two insertions at different points, and a sequence number
\* between them that is moved and mapped back.
C16_Witness ==
    /\ OnlyInsertions(TheMaintainer)
    /\ Cardinality(DOMAIN TheMaintainer.tree) = 2
    /\ \E s \in OriginalSeqs :
         /\ s <= Max(DOMAIN TheMaintainer.tree)
         /\ mapSeq(TheMaintainer, s) # s
         /\ mapAck(TheMaintainer, mapSeq(TheMaintainer, s)) = s

-----------------------------------------------------------------------------
(* The scripted connection of the end-to-end scenarios: the handshake of S1  *)
(* in order, then data of the client, acknowledgements of the server and     *)
(* the hooks the stack calls on the packets TCPIn forwarded.                 *)

\* Packets processed in a run of SpecScenario, the handshake included.
MaxPackets == 6

\* Longest payload a packet grows to by insertBytes.
MaxPayload == 12

\* Where, relative to the payload, the stack edits a packet and how many bytes.
EditPositions == {0, 3}
EditLengths == {3}

ClientFcb == <<0, ClientToServer>>
ServerFcb == <<1, ServerToClient>>

ServerSynAck ==
    [flow |-> ServerToClient, flags |-> {"SYN", "ACK"}, seq |-> 5000, ack |-> 1001,
     len |-> 0, dirty |-> FALSE, contentOffset |-> 0, payload |-> << >>]

ClientAck ==
    [flow |-> ClientToServer, flags |-> {"ACK"}, seq |-> 1001, ack |-> 5001,
     len |-> 0, dirty |-> FALSE, contentOffset |-> 0, payload |-> << >>]

\* The payloads of S1 and S2.
HelloWorld == <<"H", "E", "L", "L", "O", "W", "O", "R", "L", "D">>
AaaBbbCcc == <<"A", "A", "A", "B", "B", "B", "C", "C", "C">>

\* The payload of the data that follows the nine bytes of S2.
Ddd == <<"D", "D", "D">>

ClientDataAt(seq, payload) ==
    [flow |-> ClientToServer, flags |-> {"ACK"}, seq |-> seq, ack |-> 5001,
     len |-> Len(payload), dirty |-> FALSE, contentOffset |-> 0,
     payload |-> payload]

ClientData(payload) == ClientDataAt(1001, payload)

\* The data packets of the client: the first one of S1 or of S2, and the next.
ClientDataPackets ==
    {ClientData(HelloWorld), ClientData(AaaBbbCcc), ClientDataAt(1010, Ddd)}

\* Acknowledgement numbers the server sends once data flows.
ServerAckVals == {1004, 1010}

\* The server acknowledges, with or without closing its side.
ServerFlagSets == {{"ACK"}, {"FIN", "ACK"}}

ServerAcknowledgement(flags, ack) ==
    [flow |-> ServerToClient, flags |-> flags, seq |-> 5001, ack |-> ack,
     len |-> 0, dirty |-> FALSE, contentOffset |-> 0, payload |-> << >>]

\* What the network delivers after script packets: <<FCB, packet>>.
ScenarioPackets(n) ==
    IF n = 0 THEN {<<ClientFcb, ClientSyn>>}
    ELSE IF n = 1 THEN {<<ServerFcb, ServerSynAck>>}
    ELSE IF n = 2 THEN {<<ClientFcb, ClientAck>>}
    ELSE {<<ClientFcb, p>> : p \in ClientDataPackets}
         \cup {<<ServerFcb, ServerAcknowledgement(flags, a)>> :
                   flags \in ServerFlagSets, a \in ServerAckVals}

\* The packet TCPIn forwarded is with the elements of the stack; an edited
\* packet leaves through TCP-Out before the next packet is taken.
Forwarded == last.returned # << >>
Edited == last.op \in {"removeBytes", "insertBytes"}

ScenarioPacket ==
    /\ ~failed
    /\ script < MaxPackets
    /\ ~Edited
    /\ \E fp \in ScenarioPackets(script) :
         Install(processPacket(State, fp[1], fp[2]), "processPacket",
                 fp[1], fp[2], FALSE, FALSE)
    /\ script' = script + 1

\* The packet goes through the TCPOut element of its direction and leaves.
ScenarioTcpOut ==
    /\ ~failed
    /\ Forwarded
    /\ Install(tcpOutProcess(State, last.fcb, last.returned[1]),
               "tcpOut", last.fcb, last.returned[1], FALSE, FALSE)
    /\ UNCHANGED script

\* An element of the stack removes bytes from the payload of the packet.
ScenarioRemoveBytes ==
    /\ ~failed
    /\ Forwarded
    /\ last.op \in {"processPacket", "insertBytes"}
    /\ \E position \in EditPositions : \E length \in EditLengths :
         /\ position + length <= Len(last.returned[1].payload)
         /\ InstallCall(removeBytes(State, last.fcb, last.returned[1], position, length),
                        "removeBytes", last.fcb, last.returned[1], FALSE, FALSE,
                        position, length)
    /\ UNCHANGED script

\* An element of the stack makes room for bytes in the payload of the packet.
ScenarioInsertBytes ==
    /\ ~failed
    /\ Forwarded
    /\ last.op = "processPacket"
    /\ \E position \in EditPositions : \E length \in EditLengths :
         /\ position <= Len(last.returned[1].payload)
         /\ 0 < Len(last.returned[1].payload)
         /\ Len(last.returned[1].payload) + length <= MaxPayload
         /\ InstallCall(insertBytes(State, last.fcb, last.returned[1], position, length),
                        "insertBytes", last.fcb, last.returned[1], FALSE, FALSE,
                        position, length)
    /\ UNCHANGED script

\* An element of the stack asks for more packets before it lets this one go.
ScenarioRequestMorePackets ==
    /\ ~failed
    /\ Forwarded
    /\ script > 3
    /\ last.op = "processPacket"
    /\ Install(requestMorePackets(State, last.fcb, last.returned[1]),
               "requestMorePackets", last.fcb, last.returned[1], FALSE, FALSE)
    /\ UNCHANGED script

\* An element of the stack marks the packet as modified.
ScenarioSetPacketDirty ==
    /\ ~failed
    /\ Forwarded
    /\ script > 3
    /\ last.op = "processPacket"
    /\ Install(setPacketDirtyHook(State, last.fcb, last.returned[1]),
               "setPacketDirty", last.fcb, last.returned[1], FALSE, FALSE)
    /\ UNCHANGED script

\* An element of the stack closes the connection on a packet of the data phase.
ScenarioCloseConnection ==
    /\ script > 3
    /\ last.op = "processPacket"
    /\ CloseConnection

NextScenario ==
    \/ ScenarioPacket
    \/ ScenarioTcpOut
    \/ ScenarioRemoveBytes
    \/ ScenarioInsertBytes
    \/ ScenarioRequestMorePackets
    \/ ScenarioSetPacketDirty
    \/ ScenarioCloseConnection

SpecScenario == Init /\ [][NextScenario]_vars

\* The n-th packet of scenario S1.
S1Packet(n) ==
    IF n = 1 THEN ClientSyn
    ELSE IF n = 2 THEN ServerSynAck
    ELSE IF n = 3 THEN ClientAck
    ELSE ClientData(HelloWorld)

\* C11 (S1): on a connection where no byte was ever inserted or removed, each
\* packet of the sequence SYN seq=1000, SYN/ACK seq=5000 ack=1001, ACK seq=1001
\* ack=5001, data seq=1001 len=10 is forwarded by processPacket with seq, ack,
\* flags and payload unchanged and not marked dirty, and from the ACK on
\* lastAckReceived of the client direction is 5001.
C11_IdentityPassthrough ==
    [][(/\ last'.op = "processPacket"
        /\ script' = script + 1
        /\ script' \in 1..4
        /\ last'.pkt = S1Packet(script'))
       => (/\ ~failed'
           /\ last'.returned = <<[last'.pkt EXCEPT !.contentOffset = PayloadOffset]>>
           /\ ~last'.returned[1].dirty
           /\ last'.sent = << >>
           /\ script' >= 3
              => commons'[fcbs'[ClientFcb].tcp_common].maintainers[0].lastAckReceived
                     = 5001)]_vars

\* C11 witness: the fourth packet of S1, the ten bytes of data, was forwarded
\* right after the handshake.
C11_Witness ==
    /\ script = 4
    /\ last.op = "processPacket"
    /\ last.pkt = ClientData(HelloWorld)
    /\ Len(last.returned) = 1
    /\ last.returned[1].payload = HelloWorld
    /\ last.returned[1].seq = 1001
    /\ last.returned[1].ack = 5001
    /\ commons[fcbs[ClientFcb].tcp_common].maintainers[0].lastAckReceived = 5001
    /\ \A d \in Dirs : commons[fcbs[ClientFcb].tcp_common].maintainers[d].tree = << >>

\* The ACK the claim describes for packet p of direction d, the opposite
\* maintainer being m.
C15_ExpectedAck(p, m, ackMapped, ack) ==
    /\ ack.flow = <<p.flow[3], p.flow[4], p.flow[1], p.flow[2]>>
    /\ ack.seq = (IF ackMapped THEN mapSeq(m, p.ack) ELSE p.ack)
    /\ ack.ack = (p.seq + p.len
                  + (IF "FIN" \in p.flags \/ "SYN" \in p.flags THEN 1 ELSE 0)) % SeqMod

\* C15: ackPacket(packet, ackMapped) in direction d emits exactly one ACK,
\* from the packet's destination address/port to its source address/port,
\* with seq = maintainers[1-d].mapSeq(packet.ack) when ackMapped and
\* packet.ack otherwise, and ack = packet.seq + payloadLen, plus one for a FIN
\* or SYN; requestMorePackets emits it with ackMapped = true (the ACKs that
\* processPacket emits are built with ackMapped = false).
C15_AckPacket ==
    [][/\ last'.op = "requestMorePackets"
          => /\ Len(last'.sent) = 1
             /\ C15_ExpectedAck(last'.pkt,
                    commons[fcbs[last'.fcb].tcp_common].maintainers[1 - last'.fcb[1]],
                    TRUE, last'.sent[1])
       /\ (last'.op = "processPacket" /\ last'.sent # << >>)
          => /\ Len(last'.sent) = 1
             /\ C15_ExpectedAck(last'.pkt,
                    commons[fcbs[last'.fcb].tcp_common].maintainers[1 - last'.fcb[1]],
                    FALSE, last'.sent[1])]_vars

\* C15 witness: requestMorePackets on a FIN of the server whose ack number
\* the client's edit moves when it is mapped back.
C15_Witness ==
    /\ last.op = "requestMorePackets"
    /\ "FIN" \in last.pkt.flags
    /\ Len(last.sent) = 1
    /\ last.sent[1].seq # last.pkt.ack
    /\ last.sent[1].ack = last.pkt.seq + 1
    /\ last.sent[1].flow = ClientToServer

\* The edit of scenario S2: three bytes removed at payload offset 3 of the
\* data packet seq=1001, recorded at 1004 in the list of that packet.
S2Edit == <<[position |-> 1004, length |-> -3]>>

\* The first data packet, AAABBBCCC, has had its BBB removed (no other edit
\* of the model leaves AAACCC) and has just left through TCP-Out.
S2Emitted ==
    /\ script = 4
    /\ last.op = "tcpOut"
    /\ last.fcb = ClientFcb
    /\ last.pkt.payload = <<"A", "A", "A", "C", "C", "C">>

\* The server's ACK of 1010 is the next thing processed after that.
S2ServerAck ==
    /\ S2Emitted
    /\ last'.op = "processPacket"
    /\ last'.pkt = ServerAcknowledgement({"ACK"}, 1010)

RECURSIVE SumOfLists(_, _)
SumOfLists(lists, keys) ==
    IF keys = {} THEN 0
    ELSE LET k == CHOOSE x \in keys : TRUE
         IN SumLengths(lists[k]) + SumOfLists(lists, keys \ {k})

\* Delta conservation for the client direction: the lists of its FCB against
\* the maintainer of the direction.
Conserved ==
    LET lists == fcbs[ClientFcb].modificationLists
        m == commons[fcbs[ClientFcb].tcp_common].maintainers[0]
        maxKey == Max(DOMAIN m.tree)
    IN SumOfLists(lists, DOMAIN lists) = mapSeq(m, maxKey) - maxKey

\* Every edit recorded so far has gone through TCP-Out, and the maintainer of
\* the client direction holds at least one entry.
Propagated ==
    /\ ~Edited
    /\ fcbs[ClientFcb].tcp_common # NULL
    /\ DOMAIN commons[fcbs[ClientFcb].tcp_common].maintainers[0].tree # {}

\* Every packet processed since the handshake is a data packet of the client
\* with a sequence number of its own that was edited: none was processed
\* twice, and no ACK of the server has pruned the maintainer.
EachEditedOnce ==
    Cardinality(DOMAIN fcbs[ClientFcb].modificationLists) = script - 3

ClientLists == fcbs[ClientFcb].modificationLists
ClientMaintainer == commons[fcbs[ClientFcb].tcp_common].maintainers[0]

\* No other data packet of the client has the sequence number of packet p:
\* a packet processed before under that number was byte-identical to p.
ByteIdentical(p) ==
    \A q \in ClientDataPackets :
        getSequenceNumber(q) = getSequenceNumber(p) => q.payload = p.payload

\* The data packet TCPIn just forwarded is processed for the second time: it
\* is open, it is the second packet after the handshake, and its list exists
\* with the one edit of the first time.
SecondPass ==
    /\ script = 5
    /\ last.op = "processPacket"
    /\ last.fcb = ClientFcb
    /\ Forwarded
    /\ ByteIdentical(last.returned[1])
    /\ getSequenceNumber(last.returned[1]) \in DOMAIN ClientLists
    /\ Len(ClientLists[getSequenceNumber(last.returned[1])]) = 1

\* The step that applies to the packet of the second pass the edit of the
\* first pass, a removal or an insertion of length bytes at position.
ReplayedEdit(position, length) ==
    LET p == last.returned[1]
        node == ClientLists[getSequenceNumber(p)][1]
    IN /\ SecondPass
       /\ node.position = modificationPosition(p, position)
       /\ \/ /\ node.length = -length
             /\ position + length <= Len(p.payload)
             /\ last'.op = "removeBytes"
             /\ last'.returned = removeBytes(State, ClientFcb, p, position, length).returned
          \/ /\ node.length = length
             /\ last'.op = "insertBytes"
             /\ last'.returned = insertBytes(State, ClientFcb, p, position, length).returned

\* The list found for the packet of the second pass is the one of the first
\* pass: no list is added, and the edit of the first pass is still in it
\* when the edit of the second pass has been added.
ListReused ==
    LET seq == getSequenceNumber(last.returned[1])
    IN /\ DOMAIN ClientLists' = DOMAIN ClientLists
       /\ SumLengths(ClientLists'[seq]) = 2 * SumLengths(ClientLists[seq])

\* The packet of the second pass, edited as the first time, leaves through
\* TCP-Out: the maintainer still holds what the first pass left, one entry
\* that is the edit, and the list holds the edit of both passes.
ReplayLeaves ==
    LET seq == getSequenceNumber(last.pkt)
    IN /\ script = 5
       /\ Edited
       /\ last.fcb = ClientFcb
       /\ ByteIdentical(last.pkt)
       /\ DOMAIN ClientLists = {seq}
       /\ Len(ClientLists[seq]) = 1
       /\ DOMAIN ClientMaintainer.tree = {ClientLists[seq][1].position}
       /\ ClientLists[seq][1].length
              = 2 * ClientMaintainer.tree[ClientLists[seq][1].position]
       /\ last'.op = "tcpOut"

\* After the second pass the mapping is the one the first pass left, and the
\* packet leaves with the sequence number it left with the first time.
SameAsFirstPass ==
    /\ ClientMaintainer'.tree = ClientMaintainer.tree
    /\ last'.sent[1].seq = mapSeq(ClientMaintainer, getSequenceNumber(last.pkt))

Hooks ==
    {"closeConnection", "removeBytes", "insertBytes", "requestMorePackets",
     "setPacketDirty"}

\* The packet a hook has worked on, as the next element gets it.
PacketAfterHook ==
    IF last'.returned # << >> THEN last'.returned[1] ELSE last'.pkt

\* The step made exactly one call on the next element of the stack, the hook
\* that was called, with the arguments it was called with.
ForwardsSameCall ==
    last'.next = <<StackCall(last'.op, PacketAfterHook, last'.position,
                             last'.length, last'.graceful, last'.bothSides)>>

\* C27: each of the hooks closeConnection, removeBytes, insertBytes,
\* requestMorePackets and setPacketDirty, after its own work, forwards the
\* call to the next stack element exactly once with the modification it
\* received: same packet, same position relative to the content, same
\* length, same graceful and bothSides flags.
C27_HooksForwardSameCall ==
    [][last'.op \in Hooks => ForwardsSameCall]_vars

\* The step is removeBytes(packet, position, length) on a packet whose
\* content holds the range to remove.
RemoveBytesStep ==
    /\ last'.op = "removeBytes"
    /\ last'.position + last'.length
          <= packetLength(last'.pkt) - last'.pkt.contentOffset

\* What removeBytes leaves: one more node (origSeq + position, -length) in
\* the list of the packet's sequence number, a packet shorter by length whose
\* headers and bytes before position are the same and whose later bytes have
\* moved down.
RemoveBytesEffect ==
    LET before == last'.pkt
        after == last'.returned[1]
        seq == getSequenceNumber(before)
        old == IF seq \in DOMAIN fcbs[last'.fcb].modificationLists
               THEN fcbs[last'.fcb].modificationLists[seq] ELSE << >>
    IN /\ fcbs'[last'.fcb].modificationLists[seq]
             = addModification(old, Wrap(seq + last'.position), -last'.length)
       /\ packetLength(after) = packetLength(before) - last'.length
       /\ [after EXCEPT !.payload = << >>] = [before EXCEPT !.payload = << >>]
       /\ getPacketContent(after)
             = SubSeq(getPacketContent(before), 1, last'.position)
               \o SubSeq(getPacketContent(before), last'.position + last'.length + 1,
                         Len(getPacketContent(before)))

\* What insertBytes leaves: one more node (origSeq + position, +length), a
\* packet longer by length whose bytes from position on have moved up.
InsertBytesEffect ==
    LET before == last'.pkt
        after == last'.returned[1]
        seq == getSequenceNumber(before)
        old == IF seq \in DOMAIN fcbs[last'.fcb].modificationLists
               THEN fcbs[last'.fcb].modificationLists[seq] ELSE << >>
    IN /\ fcbs'[last'.fcb].modificationLists[seq]
             = addModification(old, Wrap(seq + last'.position), last'.length)
       /\ packetLength(after) = packetLength(before) + last'.length
       /\ SubSeq(getPacketContent(after), 1, last'.position)
             = SubSeq(getPacketContent(before), 1, last'.position)
       /\ SubSeq(getPacketContent(after), last'.position + last'.length + 1,
                 Len(getPacketContent(after)))
             = SubSeq(getPacketContent(before), last'.position + 1, Len(getPacketContent(before)))

\* C29: removeBytes(packet, position, length), position relative to the
\* payload and position + length within it, records exactly one
\* modification (origSeq + position, -length) in the list keyed by the
\* packet's original sequence number, shrinks the packet by length, leaves
\* the headers and the bytes before position unchanged, moves the bytes after
\* the removed range down to position and reads no byte beyond the end of
\* the packet; insertBytes records (origSeq + position, +length), grows the
\* packet by length and moves the bytes from position up by length.
C29_RemoveAndInsertBytes ==
    [][/\ RemoveBytesStep => (RemoveBytesEffect /\ last'.overread = 0)
       /\ last'.op = "insertBytes" => InsertBytesEffect]_vars

-----------------------------------------------------------------------------
(* The FlowBuffer of an element above TCPIn, on its own                     *)

\* Packets enqueued in one run, and packets the buffer holds at a time.
MaxEnqueued == 3
MaxBuffered == 3

\* What a buffered packet carries: a payload and where its content starts.
\* The last one has one byte of another protocol before its content.
BufferPayloads ==
    {[payload |-> << >>, contentOffset |-> PayloadOffset],
     [payload |-> <<"A">>, contentOffset |-> PayloadOffset],
     [payload |-> <<"A", "A">>, contentOffset |-> PayloadOffset],
     [payload |-> <<"A", "B">>, contentOffset |-> PayloadOffset],
     [payload |-> <<"X", "B">>, contentOffset |-> PayloadOffset + 1]}

\* The patterns searched and removed.
Patterns == {<<"A", "B">>, <<"A", "A", "B">>}

\* The n-th packet of the flow; its id stands for its address.
BufferPacket(n, c) ==
    [flow |-> ClientToServer, flags |-> {"ACK"}, seq |-> 1001 + 10 * n,
     ack |-> 5001, len |-> Len(c.payload), dirty |-> FALSE,
     contentOffset |-> c.contentOffset, payload |-> c.payload, id |-> n]

\* The ids of a batch, and the content of a batch read as one stream.
Ids(batch) == [i \in 1..Len(batch) |-> batch[i].id]
RECURSIVE Content(_)
Content(batch) ==
    IF batch = << >> THEN << >>
    ELSE getPacketContent(Head(batch)) \o Content(Tail(batch))

\* The flow is tracked by the client direction; the buffer is empty.
InitBuffer == InitMaintainer

\* What a buffer operation leaves behind.
BufferCall(op, arg, returned, feedback) ==
    [op |-> op, arg |-> arg, returned |-> returned, feedback |-> feedback]

\* The owner's iteration: where it is, what it has read, over which packets.
Iteration(iter, visited, chain) ==
    [iter |-> iter, visited |-> visited, chain |-> chain]
SameIteration == Iteration(flowBuffer.iter, flowBuffer.visited, flowBuffer.chain)
NoIteration == Iteration(contentEnd, << >>, << >>)

BufferInstall(head, it, returned, op, arg, feedback) ==
    /\ flowBuffer' = [head |-> head, iter |-> it.iter, visited |-> it.visited,
                      chain |-> it.chain, out |-> flowBuffer.out \o Ids(returned)]
    /\ last' = BufferCall(op, arg, returned, feedback)

TrackerUnchanged ==
    UNCHANGED <<fcbs, tableFcbTcpCommon, poolFcbTcpCommon, commons, failed,
                poolModificationLists, lifetime>>

\* enqueue(packet).
BufferEnqueue ==
    /\ script < MaxEnqueued
    /\ Len(flowBuffer.head) < MaxBuffered
    /\ \E c \in BufferPayloads :
         BufferInstall(enqueue(flowBuffer.head, BufferPacket(script + 1, c)),
                       SameIteration, << >>,
                       "enqueue", BufferPacket(script + 1, c), 1)
    /\ script' = script + 1
    /\ TrackerUnchanged

\* enqueueAll(batch) with a batch of two packets.
BufferEnqueueAll ==
    /\ script + 2 <= MaxEnqueued
    /\ Len(flowBuffer.head) + 2 <= MaxBuffered
    /\ \E c \in BufferPayloads, d \in BufferPayloads :
         LET batch == <<BufferPacket(script + 1, c), BufferPacket(script + 2, d)>>
         IN BufferInstall(enqueueAll(flowBuffer.head, batch), SameIteration,
                          << >>, "enqueueAll", batch, 1)
    /\ script' = script + 2
    /\ TrackerUnchanged

\* dequeue(), dequeueAll() and dequeueUpTo(packet) by the owner of the
\* buffer, which starts its iteration again afterwards.
BufferDequeue ==
    /\ LET R == dequeue(flowBuffer.head)
       IN BufferInstall(R.head, NoIteration, R.returned, "dequeue", NULL, 1)
    /\ UNCHANGED script
    /\ TrackerUnchanged

BufferDequeueAll ==
    /\ LET R == dequeueAll(flowBuffer.head)
       IN BufferInstall(R.head, NoIteration, R.returned, "dequeueAll", NULL, 1)
    /\ UNCHANGED script
    /\ TrackerUnchanged

BufferDequeueUpTo ==
    /\ \E i \in 1..Len(flowBuffer.head) :
         LET R == dequeueUpTo(flowBuffer.head, flowBuffer.head[i].id)
         IN BufferInstall(R.head, NoIteration, R.returned, "dequeueUpTo",
                          flowBuffer.head[i].id, 1)
    /\ UNCHANGED script
    /\ TrackerUnchanged

\* searchInFlow(pattern).
BufferSearch ==
    /\ \E pattern \in Patterns :
         BufferInstall(flowBuffer.head, SameIteration, << >>,
                       "searchInFlow", pattern,
                       searchInFlow(flowBuffer.head, pattern))
    /\ UNCHANGED script
    /\ TrackerUnchanged

\* removeInFlow(pattern, owner): the edits reach TCPIn::removeBytes.
BufferRemove ==
    /\ \E pattern \in Patterns :
         LET R == removeInFlow(State, <<0, ClientToServer>>, flowBuffer.head, pattern)
         IN /\ BufferInstall(R.head, NoIteration, << >>, "removeInFlow",
                             pattern, R.feedback)
            /\ fcbs' = R.S.fcbs
            /\ poolModificationLists' = R.S.listPool
    /\ UNCHANGED <<script, tableFcbTcpCommon, poolFcbTcpCommon, commons, failed,
                   lifetime>>

\* contentBegin(): the owner starts reading the content.
IterBegin ==
    /\ BufferInstall(flowBuffer.head,
                     Iteration(contentBegin(flowBuffer.head, 0), << >>,
                               flowBuffer.head),
                     << >>, "contentBegin", NULL, 1)
    /\ UNCHANGED script
    /\ TrackerUnchanged

\* The owner reads the byte at the iterator and moves the iterator on.
IterNext ==
    /\ ~iterEquals(flowBuffer.iter, contentEnd)
    /\ BufferInstall(flowBuffer.head,
                     Iteration(iterNext(flowBuffer.head, flowBuffer.iter),
                               Append(flowBuffer.visited,
                                      iterDeref(flowBuffer.head, flowBuffer.iter)),
                               flowBuffer.chain),
                     << >>, "next", NULL, 1)
    /\ UNCHANGED script
    /\ TrackerUnchanged

\* flush() on the iterator.
IterFlush ==
    /\ LET R == flush(flowBuffer.head, flowBuffer.iter)
       IN BufferInstall(R.head, SameIteration, R.returned,
                        "flush", flowBuffer.iter.entry, 1)
    /\ UNCHANGED script
    /\ TrackerUnchanged

NextBuffer ==
    \/ BufferEnqueue \/ BufferEnqueueAll
    \/ BufferDequeue \/ BufferDequeueAll \/ BufferDequeueUpTo
    \/ BufferSearch \/ BufferRemove
    \/ IterBegin \/ IterNext \/ IterFlush

SpecBuffer == InitBuffer /\ [][NextBuffer]_vars

\* The packets that have left followed by the packets still buffered are the
\* packets enqueued so far, in order.
Fifo == flowBuffer.out \o Ids(flowBuffer.head) = [i \in 1..script |-> i]

\* C21: under any interleaving of the operations packets leave the buffer in
\* the order they entered it, none lost and none twice; and dequeueAll()
\* right after enqueueAll(B) on an empty buffer returns exactly the packets
\* of B in their order and leaves the buffer empty.
C21_BufferConservation ==
    [][/\ Fifo'
       /\ (/\ last.op = "enqueueAll"
           /\ Len(flowBuffer.head) = Len(last.arg)
           /\ last'.op = "dequeueAll")
          => /\ last'.returned = last.arg
             /\ flowBuffer'.head = << >>]_vars

\* Two packets entered as a batch have left through dequeueAll() while a
\* third one entered after another dequeue.
C21_Witness ==
    /\ last.op = "dequeueAll"
    /\ Ids(last.returned) = <<2, 3>>
    /\ flowBuffer.out = <<1, 2, 3>>
    /\ flowBuffer.head = << >>

\* An iterator that is not at the end is in a buffered packet, at a byte of
\* its content.
ValidByte ==
    ~iterEquals(flowBuffer.iter, contentEnd)
    => \E i \in 1..Len(flowBuffer.head) :
          /\ flowBuffer.head[i].id = flowBuffer.iter.entry
          /\ getContentOffset(flowBuffer.head[i]) + flowBuffer.iter.offsetInPacket
                < packetLength(flowBuffer.head[i])

\* While the buffer holds the packets it held at contentBegin(), the bytes
\* read are the first bytes of the content, one more per step, and the
\* iterator is at the end exactly when all of them have been read.
InStreamOrder ==
    flowBuffer.head = flowBuffer.chain
    => /\ Len(flowBuffer.visited) <= Len(Content(flowBuffer.head))
       /\ flowBuffer.visited
             = SubSeq(Content(flowBuffer.head), 1, Len(flowBuffer.visited))
       /\ iterEquals(flowBuffer.iter, contentEnd)
             <=> Len(flowBuffer.visited) = Len(Content(flowBuffer.head))

\* C30: a content iterator that is not at the end designates a byte of the
\* content of a buffered packet, and stepping it from contentBegin() reads
\* every content byte once, in stream order, passing over the packets
\* without content, and is at contentEnd() after as many steps as the
\* buffered packets have content bytes.
C30_ContentIteration == ValidByte /\ InStreamOrder

\* The iteration has gone through a packet with content, one without, and
\* one whose content starts after the start of its payload.
C30_Witness ==
    /\ last.op = "next"
    /\ flowBuffer.head = flowBuffer.chain
    /\ Len(flowBuffer.head) = 3
    /\ getPacketContent(flowBuffer.head[1]) = <<"A">>
    /\ getPacketContent(flowBuffer.head[2]) = << >>
    /\ flowBuffer.head[3].payload = <<"X", "B">>
    /\ flowBuffer.visited = <<"A", "B">>
    /\ iterEquals(flowBuffer.iter, contentEnd)

\* The pattern is somewhere in the content, whole.
Occurs(content, pattern) ==
    \E i \in 1..Len(content) :
        /\ i + Len(pattern) - 1 <= Len(content)
        /\ SubSeq(content, i, i + Len(pattern) - 1) = pattern

\* The content ends with the first bytes of the pattern, but not all of them.
EndsInsidePattern(content, pattern) ==
    \E k \in 1..(Len(pattern) - 1) :
        /\ k <= Len(content)
        /\ SubSeq(content, Len(content) - k + 1, Len(content)) = SubSeq(pattern, 1, k)

SearchStep == last'.op = "searchInFlow"

\* C22: searchInFlow(pattern) answers 1 exactly when the pattern occurs whole
\* in the concatenated content of the buffered packets, otherwise 0 exactly
\* when the content ends with a non-empty proper prefix of the pattern, and
\* otherwise -1; the buffer is left as it was.
C22_TernarySearch ==
    [][SearchStep
       => /\ last'.feedback
               = IF Occurs(Content(flowBuffer.head), last'.arg) THEN 1
                 ELSE IF EndsInsidePattern(Content(flowBuffer.head), last'.arg)
                 THEN 0 ELSE -1
          /\ flowBuffer'.head = flowBuffer.head]_vars

\* A search has found a pattern that lies in three packets.
C22_Witness ==
    /\ last.op = "searchInFlow"
    /\ last.arg = <<"A", "A", "B">>
    /\ last.feedback = 1
    /\ Len(flowBuffer.head) = 3
    /\ \A i \in 1..3 : Len(getPacketContent(flowBuffer.head[i])) = 1

\* A search has met the start of a pattern at the end of the content.
C22_WitnessPartial ==
    /\ last.op = "searchInFlow"
    /\ last.feedback = 0
    /\ getPacketContent(flowBuffer.head[Len(flowBuffer.head)]) = << >>

\* The packets of a batch enqueued before packet p, and those from p on.
Before(batch, p) == SelectSeq(batch, LAMBDA q : q.id < p)
From(batch, p) == SelectSeq(batch, LAMBDA q : q.id >= p)

\* The call hands over the packets enqueued before p and keeps p and the
\* packets after it, p first.
UpTo(p) ==
    /\ last'.returned = Before(flowBuffer.head, p)
    /\ flowBuffer'.head = From(flowBuffer.head, p)
    /\ flowBuffer'.head[1].id = p

\* C23: dequeueUpTo(p) returns exactly the packets enqueued strictly before
\* p, in order, and leaves p first in the buffer, followed by the later
\* packets; flush() on a content iterator does the same for the packet the
\* iterator is in, and returns every packet when the iterator is at the end.
C23_DequeueUpTo ==
    [][/\ last'.op = "dequeueUpTo" => UpTo(last'.arg)
       /\ last'.op = "flush"
          => IF iterEquals(flowBuffer.iter, contentEnd)
             THEN /\ last'.returned = flowBuffer.head
                  /\ flowBuffer'.head = << >>
             ELSE UpTo(flowBuffer.iter.entry)]_vars

\* flush() with the iterator in the third packet has handed over two.
C23_Witness ==
    /\ last.op = "flush"
    /\ Ids(last.returned) = <<1, 2>>
    /\ Ids(flowBuffer.head) = <<3>>
    /\ flowBuffer.iter.entry = 3

\* Where the pattern first occurs in the content.
FirstOccurrence(content, pattern) ==
    CHOOSE i \in 1..Len(content) :
        /\ SubSeq(content, i, i + Len(pattern) - 1) = pattern
        /\ \A j \in 1..(i - 1) : SubSeq(content, j, j + Len(pattern) - 1) # pattern

\* The content without the first occurrence of the pattern.
WithoutFirst(content, pattern) ==
    SubSeq(content, 1, FirstOccurrence(content, pattern) - 1)
    \o SubSeq(content, FirstOccurrence(content, pattern) + Len(pattern), Len(content))

\* The bytes a packet carries before its content.
BeforeContent(p) == SubSeq(p.payload, 1, getContentOffset(p) - PayloadOffset)

\* The buffer holds the same packets in the same order, and what they carry
\* before their content is as it was.
SamePackets ==
    /\ Ids(flowBuffer'.head) = Ids(flowBuffer.head)
    /\ \A i \in 1..Len(flowBuffer.head) :
          BeforeContent(flowBuffer'.head[i]) = BeforeContent(flowBuffer.head[i])

\* C24: removeInFlow(pattern, owner) answers 1 exactly when the pattern
\* occurs in the buffered content and then deletes the bytes of its first
\* occurrence and no others, in however many packets they lie, the buffer
\* holding the same packets in the same order; with an answer of 0 or -1 no
\* byte of a buffered packet changes.
C24_RemoveInFlow ==
    [][last'.op = "removeInFlow"
       => IF Occurs(Content(flowBuffer.head), last'.arg)
          THEN /\ last'.feedback = 1
               /\ Content(flowBuffer'.head)
                    = WithoutFirst(Content(flowBuffer.head), last'.arg)
               /\ SamePackets
          ELSE /\ last'.feedback \in {0, -1}
               /\ flowBuffer'.head = flowBuffer.head]_vars

\* A pattern lying in three packets has been removed, the last of them a
\* packet whose content starts after the start of its payload.
C24_Witness ==
    /\ last.op = "removeInFlow"
    /\ last.arg = <<"A", "A", "B">>
    /\ last.feedback = 1
    /\ Len(flowBuffer.head) = 3
    /\ Content(flowBuffer.head) = << >>
    /\ flowBuffer.head[3].payload = <<"X">>
    /\ \A i \in 1..3 :
          hasModificationList(State, <<0, ClientToServer>>, flowBuffer.head[i])

-----------------------------------------------------------------------------
(* The scripted connection on elements whose pools are nearly used up       *)

\* Other connections of the elements hold all the records and lists of the
\* pools, or all but one.
InitPool ==
    /\ fcbs = [f \in Fcbs |-> NewFcb]
    /\ tableFcbTcpCommon = [d \in Dirs |-> [id \in FlowIds |-> NULL]]
    /\ \E n \in {TCPCOMMON_POOL_SIZE - 1, TCPCOMMON_POOL_SIZE} :
          poolFcbTcpCommon = [d \in Dirs |-> n]
    /\ commons = << >>
    /\ last = [op |-> "init", fcb |-> NoFcb, pkt |-> NoPacket,
               returned |-> << >>, sent |-> << >>,
               graceful |-> FALSE, bothSides |-> FALSE]
    /\ failed = FALSE
    /\ script = 0
    /\ \E n \in {MODIFICATIONLISTS_POOL_SIZE - 1, MODIFICATIONLISTS_POOL_SIZE} :
          poolModificationLists = [d \in Dirs |-> n]
    /\ flowBuffer = NewFlowBuffer
    /\ lifetime = NewLifetime

SpecPool == InitPool /\ [][NextScenario]_vars

\* The step is processPacket on the SYN of an initiator, for which a
\* fcb_tcp_common is needed, and the pool of the element has none.
NoRecordForSyn ==
    /\ last'.op = "processPacket"
    /\ fcbs[last'.fcb].tcp_common = NULL
    /\ isSyn(last'.pkt) /\ ~isAck(last'.pkt)
    /\ getMemoryFails(poolFcbTcpCommon[getFlowDirection(last'.fcb)],
                      TCPCOMMON_POOL_SIZE)

\* The step is an edit of a packet that has no modification list yet, and the
\* pool of the element has none.
NoListForEdit ==
    /\ last'.op \in {"removeBytes", "insertBytes"}
    /\ listConstructedAtNull(State, last'.fcb, last'.pkt)

\* After the step the directions of the connection, if it has a record, are
\* in an ungraceful closing state, an RST has gone to both sides, and the FCB
\* holds no record any more.
ShedConnection ==
    /\ fcbs[last'.fcb].tcp_common # NULL
       => \A d \in Dirs :
             commons'[fcbs[last'.fcb].tcp_common].closingStates[d]
                \in {"BEING_CLOSED_UNGRACEFUL", "CLOSED_UNGRACEFUL"}
    /\ RstSent
    /\ RstAdded \/ Cardinality({i \in DOMAIN last'.sent : isRst(last'.sent[i])}) = 2
    /\ fcbs'[last'.fcb].tcp_common = NULL

\* C25: when the pool has no free element at the moment processPacket needs a
\* fcb_tcp_common for an initiator's SYN, or an edit needs a modification
\* list, the operation does not crash and uses no record the pool did not
\* hand out: the connection is closed ungracefully, an RST goes to both
\* sides, and the FCB is released.
C25_PoolExhaustion ==
    [][(NoRecordForSyn \/ NoListForEdit) => (~failed' /\ ShedConnection)]_vars

-----------------------------------------------------------------------------
(* The end of a connection: the directions close and the record is released. *)
(* What releases the FCB is defined elsewhere in the repository; it is       *)
(* modelled from the specification (sections 3 and 5), with the FCB that     *)
(* assignTCPCommon put in charge of the record, lines 441-447, as the one    *)
(* that holds what is needed to free it.                                     *)

\* Mutant: the record may go once one direction is closed.
releasable_OneDirection(S, r) ==
    \E d \in Dirs : S.commons[r].closingStates[d] \in ClosedStates

\* The record of a connection may go once both directions are closed and the
\* grace period is over; the model leaves the length of the period open.
releasable(S, r) ==
    \A d \in Dirs : S.commons[r].closingStates[d] \in ClosedStates

\* The release by FCB f, which is in charge of the record: the entry leaves
\* the flow-id table of its element, the record goes back to the pool of its
\* element, and the FCBs of the connection are given up, their lists with them.
release(S, f) ==
    LET r == S.fcbs[f].tcp_common
        d == getFlowDirection(f)
        ofConnection == {g \in Fcbs : S.fcbs[g].tcp_common = r}
    IN [S EXCEPT !.table[d][S.fcbs[f].flowID] = NULL,
                 !.pool[d] = @ - 1,
                 !.listPool = [e \in Dirs |->
                     @[e] - Cardinality(UNION {DOMAIN S.fcbs[g].modificationLists :
                                                  g \in {h \in ofConnection :
                                                             getFlowDirection(h) = e}})],
                 !.fcbs = [g \in Fcbs |->
                              IF g \in ofConnection THEN NewFcb ELSE S.fcbs[g]]]

\* The state a closing direction ends in.
closedState(closingState) ==
    IF closingState = "BEING_CLOSED_GRACEFUL" THEN "CLOSED_GRACEFUL"
    ELSE "CLOSED_UNGRACEFUL"

LifetimeCall(op, f) ==
    [op |-> op, fcb |-> f, pkt |-> NoPacket, returned |-> << >>, sent |-> << >>,
     graceful |-> FALSE, bothSides |-> FALSE]

\* The close of a direction that is being closed comes to its end.
CloseCompletes ==
    /\ ~failed
    /\ \E f \in Fcbs :
         LET r == fcbs[f].tcp_common
             d == getFlowDirection(f)
         IN /\ r # NULL
            /\ commons[r].closingStates[d]
                  \in {"BEING_CLOSED_GRACEFUL", "BEING_CLOSED_UNGRACEFUL"}
            /\ commons' = [commons EXCEPT ![r].closingStates[d] = closedState(@)]
            /\ lifetime' = closedAfter(lifetime, commons, commons')
            /\ last' = LifetimeCall("closed", f)
    /\ UNCHANGED <<fcbs, tableFcbTcpCommon, poolFcbTcpCommon, failed, script,
                   poolModificationLists, flowBuffer>>

\* The grace period of a closed connection ends and its FCB is released.
Release ==
    /\ ~failed
    /\ \E f \in Fcbs :
         /\ fcbs[f].tcp_common # NULL
         /\ fcbs[f].inChargeOfTcpCommon
         /\ releasable(State, fcbs[f].tcp_common)
         /\ LET S == release(State, f)
            IN /\ fcbs' = S.fcbs
               /\ tableFcbTcpCommon' = S.table
               /\ poolFcbTcpCommon' = S.pool
               /\ poolModificationLists' = S.listPool
         /\ lifetime' = [lifetime EXCEPT !.released = @ + 1]
         /\ last' = LifetimeCall("release", f)
    /\ UNCHANGED <<commons, failed, script, flowBuffer>>

NextRelease ==
    \/ ScenarioPacket
    \/ ScenarioCloseConnection
    \/ CloseCompletes
    \/ Release

\* The grace period ends: a release that stays possible is made.
SpecRelease == Init /\ [][NextRelease]_vars /\ WF_vars(Release)

\* The step takes an entry out of a flow-id table or gives a record back to
\* a pool.
Removed ==
    \/ \E d \in Dirs : \E id \in FlowIds :
          tableFcbTcpCommon[d][id] # NULL /\ tableFcbTcpCommon'[d][id] = NULL
    \/ \E d \in Dirs : poolFcbTcpCommon'[d] < poolFcbTcpCommon[d]

\* The record of the connection, as the flow-id tables know it.
Published ==
    {tableFcbTcpCommon[d][id] : d \in Dirs, id \in FlowIds} \ {NULL}

\* A connection has its record and both its directions are closed.
BothClosed ==
    \E r \in Published :
       \A d \in Dirs : commons[r].closingStates[d] \in ClosedStates

\* No flow-id table has an entry and every record is back in its pool,
\* after one release.
Returned ==
    /\ Published = {}
    /\ \A d \in Dirs : poolFcbTcpCommon[d] = 0
    /\ lifetime.released = 1

\* A step that removes the entry and returns the record does so when both
\* directions are closed, for one entry and one record of one element.
RemovedWhenClosed ==
    Removed
    => /\ \A r \in Published :
             \A d \in Dirs : commons[r].closingStates[d] \in ClosedStates
       /\ Published' = {}
       /\ \E d \in Dirs :
             /\ poolFcbTcpCommon'[d] = poolFcbTcpCommon[d] - 1
             /\ poolFcbTcpCommon'[1 - d] = poolFcbTcpCommon[1 - d]
       /\ lifetime'.released = 1

-----------------------------------------------------------------------------
(* The flow information of a direction                                      *)

\* The step is processPacket associating the FCB with its record.
Associated ==
    /\ last'.op = "processPacket"
    /\ fcbs[last'.fcb].tcp_common = NULL
    /\ fcbs'[last'.fcb].tcp_common # NULL

\* The maintainer of the direction of the FCB of the step, after the step.
OwnMaintainerAfter ==
    commons'[fcbs'[last'.fcb].tcp_common].maintainers[getFlowDirection(last'.fcb)]

\* The four-tuple a maintainer holds.
FourTuple(m) == <<m.ipSrc, m.portSrc, m.ipDst, m.portDst>>

\* The four-tuple of every direction that is associated stays as it is.
FourTuplesKept ==
    \A r \in DOMAIN commons : \A d \in Dirs :
       commons[r].maintainers[d].initialized
       => FourTuple(commons'[r].maintainers[d]) = FourTuple(commons[r].maintainers[d])

\* C31: when a direction is associated with its record, on its SYN or
\* SYN+ACK, the four-tuple recorded for it is the one of the packet, source
\* address and port and destination address and port, and no later packet
\* changes it.
C31_FourTupleOfThePacket ==
    [][/\ Associated
          => FourTuple(OwnMaintainerAfter)
               = <<getSourceAddress(last'.pkt), getSourcePort(last'.pkt),
                   getDestinationAddress(last'.pkt), getDestinationPort(last'.pkt)>>
       /\ FourTuplesKept]_vars

-----------------------------------------------------------------------------
(* What a step of one direction writes of the other direction's fields      *)

\* A step of processPacket or closeConnection on an FCB that already has its
\* record: the step of direction DirectionStep on record RecordStep.
DirectionStep ==
    /\ last'.op \in {"processPacket", "closeConnection"}
    /\ fcbs[last'.fcb].tcp_common # NULL

RecordStep == fcbs[last'.fcb].tcp_common
OppositeStep == getOppositeFlowDirection(last'.fcb)

\* The fields of a maintainer other than its tree.
MaintainerFields(m) ==
    <<m.initialized, m.lastAckSent, m.lastAckReceived, FourTuple(m)>>

OppositeMaintainerKept ==
    commons'[RecordStep].maintainers[OppositeStep]
        = commons[RecordStep].maintainers[OppositeStep]
OppositeTimingKept ==
    commons'[RecordStep].retransmissionTimings[OppositeStep]
        = commons[RecordStep].retransmissionTimings[OppositeStep]
OppositeClosingStateKept ==
    commons'[RecordStep].closingStates[OppositeStep]
        = commons[RecordStep].closingStates[OppositeStep]

-----------------------------------------------------------------------------
(* Sequence and acknowledgement numbers on both sides of the wrap of the    *)
(* numberspace: the elements are fed packets whose numbers lie just before  *)
(* and just after the wrap.                                                 *)

\* A number just before the wrap and one just after it.
SerialVals == {SeqMod - 5, 10}

\* The handshake and the packets of the established connection.
SerialFlagSets == {{"SYN"}, {"SYN", "ACK"}, {"ACK"}}

SerialPackets(f) ==
    [flow : {f[2]}, flags : SerialFlagSets, seq : SerialVals, ack : SerialVals,
     len : LenVals, dirty : {FALSE}, contentOffset : {0}]

\* A packet of flow f, numbered near the wrap, reaches its TCPIn element.
SerialPacket ==
    /\ ~failed
    /\ \E f \in Fcbs : \E p \in SerialPackets(f) :
         /\ Delivered(f, p)
         /\ Install(processPacket(State, f, p), "processPacket", f, p,
                    FALSE, FALSE)
    /\ UNCHANGED script

NextSerial == SerialPacket \/ TcpOut \/ InsertModification

SpecSerial == Init /\ [][NextSerial]_vars

\* x comes before y in the circular numberspace: y is reached from x by
\* adding at least one and at most half of the numberspace.
Precedes(x, y) ==
    LET ahead == (y - x) % SeqMod
    IN ahead >= 1 /\ ahead <= SeqMod \div 2

\* A step of processPacket on an ACK-bearing packet that passes the closing
\* check and the lost-ACK check, on an FCB that has its record.
AckHandled ==
    /\ DirectionStep /\ last'.op = "processPacket"
    /\ isAck(last'.pkt) /\ ~isUnexpectedSyn(last'.pkt)
    /\ commons[RecordStep].closingStates[getFlowDirection(last'.fcb)] = "OPEN"
    /\ ~Precedes(getSequenceNumber(last'.pkt),
                 commons[RecordStep].maintainers[OppositeStep].lastAckSent)

\* The ack number as the opposite maintainer maps it before the step.
AckMappedBefore ==
    mapAck(commons[RecordStep].maintainers[OppositeStep], getAckNumber(last'.pkt))

\* The pure ACK is dropped as redundant: its mapped ack number comes before
\* the last ACK this direction sent.
RedundantBefore ==
    /\ isJustAnAck(last'.pkt)
    /\ Precedes(AckMappedBefore,
                commons[RecordStep].maintainers[getFlowDirection(last'.fcb)].lastAckSent)

\* C33: on an ACK-bearing packet that passes the closing and lost-ACK checks
\* the ack number is mapped by the opposite maintainer as it is before the
\* step, lastAckReceived of this direction becomes the packet's unmapped ack
\* number whatever the stored one was, the opposite maintainer is pruned and
\* the opposite timing signalled with that number, and the packet is dropped
\* exactly when it is a redundant pure ACK, with these updates made.
C33_AckHandlingOrder ==
    [][AckHandled =>
          LET d == getFlowDirection(last'.fcb)
              a == getAckNumber(last'.pkt)
              before == commons[RecordStep]
              after == commons'[RecordStep]
          IN /\ after.maintainers[d].lastAckReceived = a
             /\ after.maintainers[OppositeStep]
                    = prune(before.maintainers[OppositeStep], a)
             /\ after.retransmissionTimings[OppositeStep]
                    = signalAck(before.retransmissionTimings[OppositeStep], a)
             /\ last'.returned = << >> <=> RedundantBefore
             /\ last'.returned # << >> => last'.returned[1].ack = AckMappedBefore]_vars

\* A pure ACK has been dropped as redundant: nothing was handed on or sent
\* back, its ack number comes before the last ACK sent, and it is the ack
\* number received, and signalled to the other direction, all the same.
C33_Witness ==
    /\ last.op = "processPacket" /\ isJustAnAck(last.pkt)
    /\ last.returned = << >> /\ last.sent = << >>
    /\ LET r == fcbs[last.fcb].tcp_common
           d == getFlowDirection(last.fcb)
           o == getOppositeFlowDirection(last.fcb)
       IN /\ r # NULL
          /\ commons[r].closingStates[d] = "OPEN"
          /\ Precedes(getAckNumber(last.pkt), commons[r].maintainers[d].lastAckSent)
          /\ commons[r].maintainers[d].lastAckReceived = getAckNumber(last.pkt)
          /\ commons[r].retransmissionTimings[o] = [signalled |-> TRUE,
                                                    ack |-> getAckNumber(last.pkt)]

\* A step of processPacket on a packet that is not a SYN, on an FCB that has
\* its record and whose direction is open.
SequenceChecked ==
    /\ DirectionStep /\ last'.op = "processPacket"
    /\ ~isSyn(last'.pkt)
    /\ commons[RecordStep].closingStates[getFlowDirection(last'.fcb)] = "OPEN"

LastAckSentOtherSide == commons[RecordStep].maintainers[OppositeStep].lastAckSent

\* The packet is answered as a retransmission whose ACK was lost: it is
\* dropped and the ACK of its last byte is sent back.
LostAckAnswered ==
    /\ last'.returned = << >>
    /\ Len(last'.sent) = 1
    /\ last'.sent[1].flags = {"ACK"}
    /\ last'.sent[1].seq = getAckNumber(last'.pkt)
    /\ last'.sent[1].ack =
           (getSequenceNumber(last'.pkt) + getPayloadLength(last'.pkt)
            + (IF isFin(last'.pkt) THEN 1 ELSE 0)) % SeqMod

\* C34: the comparisons of processPacket are serial-number comparisons: a
\* packet is answered as a lost-ACK retransmission exactly when its sequence
\* number comes before lastAckSent of the opposite direction in the circular
\* numberspace (so with lastAckSent just after the wrap and seq just before it,
\* and not the other way round), a pure ACK is dropped as redundant exactly when
\* its mapped ack number comes before lastAckSent of its own direction, and the
\* ack number of the ACK sent back is seq + payload length taken modulo the
\* size of the numberspace.
C34_SerialComparisons ==
    [][SequenceChecked =>
          LET seq == getSequenceNumber(last'.pkt)
          IN /\ Precedes(seq, LastAckSentOtherSide) <=> LostAckAnswered
             /\ Precedes(seq, LastAckSentOtherSide) <=> last'.sent # << >>
             /\ (LastAckSentOtherSide = 10 /\ seq = SeqMod - 5) => LostAckAnswered
             /\ (LastAckSentOtherSide = SeqMod - 5 /\ seq = 10) => last'.sent = << >>
             /\ (AckHandled /\ isJustAnAck(last'.pkt)) =>
                    (last'.returned = << >> <=> RedundantBefore)]_vars

\* A packet numbered just before the wrap was answered as a lost-ACK
\* retransmission because the other direction had acknowledged up to a number
\* just after the wrap, and the ack number sent back has wrapped.
C34_Witness ==
    /\ last.op = "processPacket" /\ ~isSyn(last.pkt)
    /\ getSequenceNumber(last.pkt) = SeqMod - 5
    /\ getPayloadLength(last.pkt) = 10
    /\ LET r == fcbs[last.fcb].tcp_common
       IN /\ r # NULL
          /\ commons[r].closingStates[getFlowDirection(last.fcb)] = "OPEN"
          /\ commons[r].maintainers[getOppositeFlowDirection(last.fcb)].lastAckSent = 10
    /\ last.returned = << >>
    /\ Len(last.sent) = 1 /\ last.sent[1].ack = 5

-----------------------------------------------------------------------------
(* What the prune of an ACK does to the mappings of the opposite direction  *)

\* The opposite maintainer before and after a step, and the ack number of the
\* packet of the step.
MaintainerBefore == commons[RecordStep].maintainers[OppositeStep]
MaintainerAfter == commons'[RecordStep].maintainers[OppositeStep]
AckOfStep == getAckNumber(last'.pkt)

\* C35: when processPacket has pruned the opposite maintainer with
\* the ack number a of the packet, mapAck(x) for every x >= a and mapSeq(s) for
\* every original sequence number s not yet acknowledged are what they were
\* before the prune.
C35_PruneKeepsMappings ==
    [][AckHandled =>
          /\ \A x \in OriginalSeqs :
                 x >= AckOfStep =>
                     mapAck(MaintainerAfter, x) = mapAck(MaintainerBefore, x)
          /\ \A s \in OriginalSeqs :
                 s >= mapAck(MaintainerBefore, AckOfStep) =>
                     mapSeq(MaintainerAfter, s) = mapSeq(MaintainerBefore, s)]_vars

====
